---- MODULE Spec2Model ----
(***************************************************************************)
(* Model of the QR-code upload worker (wutz/qrcode).                       *)
(*                                                                         *)
(* Two versions of the worker are modelled side by side:                   *)
(*   "part_000"  the current worker (qrcode-svg, optional R2_PUBLIC_URL,   *)
(*               QR failure tolerated inside the upload handler)           *)
(*   "index_ts"  src/index.ts (qrcode, proxy address only, one try/catch)  *)
(* The variable impl says which one is deployed.                           *)
(*                                                                         *)
(* Text is modelled as a sequence of one-character strings, so that        *)
(* concatenation, endsWith, slice, split and startsWith are computed the   *)
(* way the code computes them.  MIME types are only ever compared for      *)
(* equality and stay atomic strings.                                       *)
(***************************************************************************)
EXTENDS Integers, Sequences, FiniteSets, TLC

VARIABLES
  impl,           \* which worker source is deployed
  R2_PUBLIC_URL,  \* c.env.R2_PUBLIC_URL (<<>> when not configured)
  now,            \* the value Date.now() returned last
  bucket,         \* c.env.R2_BUCKET: key -> [body, contentType]
  req,            \* one record per in-flight POST /api/upload
  imgResp,        \* the response of the latest GET /images/:fileName
  qreq,           \* one record per POST /api/qrcode
  call,           \* the latest call of a helper: its arguments and outcome
  page            \* the page script: its globals, the DOM it writes, its callbacks

vars == <<impl, R2_PUBLIC_URL, now, bucket, req, imgResp, qreq, call, page>>

(***************************************************************************)
(* Bounds of the model.                                                    *)
(***************************************************************************)
\* Date.now() at the start of a run, and how far it may advance.
ClockStart == 9
MaxTicks == 1

\* The upload requests in flight together, numbered in the order they arrive
\* (two are enough for every pair).
Requests == {1, 2}

(***************************************************************************)
(* Text helpers: what the JavaScript string methods compute.               *)
(***************************************************************************)
StartsWith(s, p) == Len(p) <= Len(s) /\ SubSeq(s, 1, Len(p)) = p

EndsWith(s, p) == Len(p) <= Len(s) /\ SubSeq(s, Len(s) - Len(p) + 1, Len(s)) = p

\* s.slice(0, -1)
SliceDropLast(s) == SubSeq(s, 1, Len(s) - 1)

\* s.lastIndexOf(c), 1-based, 0 when c does not occur
LastIndexOf(s, c) ==
  LET hits == {i \in 1..Len(s) : s[i] = c}
  IN IF hits = {} THEN 0 ELSE CHOOSE i \in hits : \A j \in hits : j <= i

\* s.indexOf(c, from), 1-based, 0 when c does not occur at or after from
IndexOfFrom(s, c, from) ==
  LET hits == {i \in from..Len(s) : s[i] = c}
  IN IF hits = {} THEN 0 ELSE CHOOSE i \in hits : \A j \in hits : i <= j

\* s.split(c).pop(): the text after the last c, the whole of s when it has none
SplitPop(s, c) == SubSeq(s, LastIndexOf(s, c) + 1, Len(s))

Digits == <<"0", "1", "2", "3", "4", "5", "6", "7", "8", "9">>

\* `${n}` of a non-negative integer
RECURSIVE NumToString(_)
NumToString(n) ==
  IF n < 10 THEN <<Digits[n + 1]>>
  ELSE NumToString(n \div 10) \o <<Digits[(n % 10) + 1]>>

(***************************************************************************)
(* Literals of the source.                                                 *)
(***************************************************************************)
PNG == <<"p", "n", "g">>
ImagesPath == <<"/", "i", "m", "a", "g", "e", "s", "/">>
DataImage == <<"d", "a", "t", "a", ":", "i", "m", "a", "g", "e">>
SvgBase64Prefix ==
  DataImage \o <<"/", "s", "v", "g", "+", "x", "m", "l", ";",
                 "b", "a", "s", "e", "6", "4", ",">>
SvgUtf8Prefix ==
  DataImage \o <<"/", "s", "v", "g", "+", "x", "m", "l", ";",
                 "c", "h", "a", "r", "s", "e", "t", "=", "u", "t", "f", "-", "8", ",">>
PngBase64Prefix ==
  DataImage \o <<"/", "p", "n", "g", ";", "b", "a", "s", "e", "6", "4", ",">>

allowedTypes ==
  {"image/jpeg", "image/png", "image/gif", "image/webp", "image/svg+xml", "image/bmp"}

maxSize == 10 * 1024 * 1024

MsgNoFile == "Please select an image to upload"
MsgBadType == "Unsupported file type, please upload an image file"
MsgTooLarge == "File size cannot exceed 10MB"
MsgUploadFailed == "Upload failed, please try again"
\* The messages of index.ts, transliterated
MsgNoFileV1 == "qing xuanze yao shangchuan de tupian"
MsgBadTypeV1 == "bu zhichi de wenjian leixing, qing shangchuan tupian wenjian"
MsgTooLargeV1 == "wenjian daxiao bu neng chaoguo 10MB"
MsgUploadFailedV1 == "shangchuan shibai, qing chongshi"


(***************************************************************************)
(* Optional values (string | null).                                        *)
(***************************************************************************)
Null == [isNull |-> TRUE, v |-> <<>>]
Some(s) == [isNull |-> FALSE, v |-> s]

(***************************************************************************)
(* Inputs: what a client can send and what the platform can answer.        *)
(***************************************************************************)
\* c.req.url of an upload request
ReqUrl ==
  <<"h", "t", "t", "p", ":", "/", "/", "w", "/", "a", "p", "i", "/",
    "u", "p", "l", "o", "a", "d">>

File(name, type, size, body) ==
  [kind |-> "file", name |-> name, type |-> type, size |-> size, body |-> body]

\* formData() rejected (the body is not multipart form data)
FormUnparsable == [kind |-> "unparsable", name |-> <<>>, type |-> "", size |-> 0, body |-> ""]
\* formData.get('file') is null
FormNoFile == [kind |-> "nofile", name |-> <<>>, type |-> "", size |-> 0, body |-> ""]

Files ==
  { File(<<"a", ".", "p", "n", "g">>, "image/png", 2048, "bytesA"),
    File(<<"m", ".", "J", "P", "G">>, "image/jpeg", maxSize, "bytesM"),
    File(<<"o", ".", "p", "n", "g">>, "image/png", maxSize + 1, "bytesO"),
    File(<<"t", ".", "t", "x", "t">>, "text/plain", 2048, "bytesT"),
    File(<<"e", ".", "p", "n", "g">>, "image/png", 0, ""),
    File(<<"q", ".", "p", "?", "g">>, "image/png", 2048, "bytesQ") }

FormInputs == {FormUnparsable, FormNoFile} \cup Files

\* Math.random().toString(36).substring(2, 8): up to six characters of 0-9a-z
RandomSuffixes == { <<"k", "3", "x", "9", "q", "z">>, <<"i">> }

\* The values c.env.R2_PUBLIC_URL is deployed with (<<>>: not set)
PublicUrlConfigs ==
  { <<>>,
    <<"h", "t", "t", "p", ":", "/", "/", "c">>,
    <<"h", "t", "t", "p", ":", "/", "/", "c", "/">>,
    <<"h", "t", "t", "p", ":", "/", "/", "c", "/", "/">>,
    <<"c">> }

(***************************************************************************)
(* The platform's URL parser, as far as the handlers use it.               *)
(***************************************************************************)
Lower ==
  {"a", "b", "c", "d", "e", "f", "g", "h", "i", "j", "k", "l", "m",
   "n", "o", "p", "q", "r", "s", "t", "u", "v", "w", "x", "y", "z"}
Upper ==
  {"A", "B", "C", "D", "E", "F", "G", "H", "I", "J", "K", "L", "M",
   "N", "O", "P", "Q", "R", "S", "T", "U", "V", "W", "X", "Y", "Z"}
DigitChars == {Digits[i] : i \in 1..10}
SchemeChars == Lower \cup Upper \cup DigitChars \cup {"+", "-", "."}
SpecialSchemes ==
  { <<"h", "t", "t", "p">>, <<"h", "t", "t", "p", "s">> }

\* The text of u from position i on, without its leading slashes
RECURSIVE SkipSlashes(_, _)
SkipSlashes(u, i) ==
  IF i <= Len(u) /\ u[i] \in {"/", "\\"} THEN SkipSlashes(u, i + 1)
  ELSE SubSeq(u, i, Len(u))

\* The host of an http(s) URL: the text up to the first of / ? #
HostOf(rest) ==
  LET ends == {i \in 1..Len(rest) : rest[i] \in {"/", "?", "#", "\\"}}
      stop == IF ends = {} THEN Len(rest) + 1
              ELSE CHOOSE i \in ends : \A j \in ends : i <= j
  IN SubSeq(rest, 1, stop - 1)

\* new URL(u) does not throw: u is an absolute URL (a scheme, and for http(s)
\* a non-empty host)
URLParses(u) ==
  LET colon == IndexOfFrom(u, ":", 1)
  IN /\ colon > 1
     /\ u[1] \in Lower \cup Upper
     /\ \A i \in 2..(colon - 1) : u[i] \in SchemeChars
     /\ SubSeq(u, 1, colon - 1) \in SpecialSchemes
          => HostOf(SkipSlashes(u, colon + 1)) # <<>>

\* new URL(u).origin of an http(s) URL: scheme://host
OriginOf(u) ==
  LET colon == IndexOfFrom(u, ":", 1)
  IN SubSeq(u, 1, colon) \o <<"/", "/">> \o HostOf(SkipSlashes(u, colon + 1))


(***************************************************************************)
(* Helpers of the worker.                                                  *)
(***************************************************************************)
\* Mutant: the random suffix is left out of the key
generateFileNameNoRandom(originalName, timestamp, random) ==
  LET popped == SplitPop(originalName, ".")
      ext == IF popped = <<>> THEN PNG ELSE popped
  IN NumToString(timestamp) \o <<".">> \o ext

\* generateFileName(originalName), with the values Date.now() and
\* Math.random().toString(36).substring(2, 8) returned in that call
generateFileName(originalName, timestamp, random) ==
  LET popped == SplitPop(originalName, ".")
      ext == IF popped = <<>> THEN PNG ELSE popped
  IN NumToString(timestamp) \o <<"-">> \o random \o <<".">> \o ext

\* What the QR library and the runtime can do in one generateQRCode call:
\*   lib  "svg"     qr.svg() returns the SVG text
\*        "throws"  new QRCode(...) or qr.svg() throws (content too long, ...)
\*        "nosvg"   qr.svg() returns an empty or non-string value
\*   btoa "ok" | "missing" (typeof btoa === 'undefined') | "throws"
QrRuns ==
  { [lib |-> "svg", btoa |-> "ok"],
    [lib |-> "svg", btoa |-> "missing"],
    [lib |-> "svg", btoa |-> "throws"],
    [lib |-> "throws", btoa |-> "ok"],
    [lib |-> "nosvg", btoa |-> "ok"] }

Thrown(msg) == [threw |-> TRUE, value |-> <<>>, message |-> msg]
Returned(s) == [threw |-> FALSE, value |-> s, message |-> ""]

\* Mutant: the SVG text is returned as it is, not as a data URL
generateQRCodeRawSvg(text, run) ==
  IF text = <<>> \/ run.lib # "svg" THEN Thrown("failed")
  ELSE Returned(<<"<svg>">>)

\* Mutant: there is no URL-encoded form to fall back to
generateQRCodeBase64Only(text, run) ==
  IF text = <<>> THEN Thrown("Invalid text for QR code generation")
  ELSE IF run.lib = "throws" THEN Thrown("qrcode-svg error")
  ELSE IF run.lib = "nosvg" THEN Thrown("QR code generation returned invalid SVG")
  ELSE IF run.btoa = "ok" THEN Returned(SvgBase64Prefix \o <<"<svg>">>)
  ELSE Thrown("btoa is not defined")

\* generateQRCode(text, options) of part_000; the encoded SVG itself is
\* the one opaque element "<svg>" after the data URL's prefix
generateQRCode(text, run) ==
  IF text = <<>> THEN Thrown("Invalid text for QR code generation")
  ELSE IF run.lib = "throws" THEN Thrown("qrcode-svg error")
  ELSE IF run.lib = "nosvg" THEN Thrown("QR code generation returned invalid SVG")
  ELSE IF run.btoa = "ok" THEN Returned(SvgBase64Prefix \o <<"<svg>">>)
  ELSE Returned(SvgUtf8Prefix \o <<"<svg>">>)

\* What QRCode.toDataURL of index.ts can do: resolve with a PNG data URL or
\* reject
ToDataUrlRuns == {"png", "rejects"}

toDataURL(text, run) ==
  IF run = "rejects" THEN Thrown("qrcode error")
  ELSE Returned(PngBase64Prefix \o <<"<png>">>)

\* Mutant: the base is used as configured, its trailing slash kept
publicUrlOfNoStrip(fileName) ==
  IF R2_PUBLIC_URL # <<>>
  THEN R2_PUBLIC_URL \o <<"/">> \o fileName
  ELSE OriginOf(ReqUrl) \o ImagesPath \o fileName

\* The public address of a stored key, part_000
publicUrlOf(fileName) ==
  IF R2_PUBLIC_URL # <<>>
  THEN LET baseUrl == IF EndsWith(R2_PUBLIC_URL, <<"/">>)
                      THEN SliceDropLast(R2_PUBLIC_URL)
                      ELSE R2_PUBLIC_URL
       IN baseUrl \o <<"/">> \o fileName
  ELSE OriginOf(ReqUrl) \o ImagesPath \o fileName

\* The public address of a stored key, index.ts
proxyUrlOf(fileName) == OriginOf(ReqUrl) \o ImagesPath \o fileName

\* Mutant: the type check is missing
validationErrorNoTypeCheck(form) ==
  IF form.kind = "nofile" THEN "nofile"
  ELSE IF form.size > maxSize THEN "size"
  ELSE ""

\* Mutant: the size check is >= instead of >
validationErrorOffByOne(form) ==
  IF form.kind = "nofile" THEN "nofile"
  ELSE IF form.type \notin allowedTypes THEN "type"
  ELSE IF form.size >= maxSize THEN "size"
  ELSE ""

\* The first validation rule the file field violates ("" when it passes)
validationError(form) ==
  IF form.kind = "nofile" THEN "nofile"
  ELSE IF form.type \notin allowedTypes THEN "type"
  ELSE IF form.size > maxSize THEN "size"
  ELSE ""

\* The message of a violated rule, in the deployed worker's language
validationMessage(rule) ==
  IF impl = "part_000"
  THEN (IF rule = "nofile" THEN MsgNoFile
        ELSE IF rule = "type" THEN MsgBadType ELSE MsgTooLarge)
  ELSE (IF rule = "nofile" THEN MsgNoFileV1
        ELSE IF rule = "type" THEN MsgBadTypeV1 ELSE MsgTooLargeV1)

\* The message of the upload handler's catch
uploadFailedMessage ==
  IF impl = "part_000" THEN MsgUploadFailed ELSE MsgUploadFailedV1

(***************************************************************************)
(* Responses.                                                              *)
(***************************************************************************)
NoResponse ==
  [status |-> 0, keys |-> {}, success |-> FALSE, error |-> "",
   imageUrl |-> <<>>, qrCode |-> Null, fileName |-> <<>>,
   qrCodeGenerated |-> FALSE]

\* Mutant: the exception's message is sent along, as /api/qrcode does
ErrorResponseWithDetails(status, msg) ==
  [NoResponse EXCEPT !.status = status, !.keys = {"error", "details"}, !.error = msg]

\* c.json({ error: msg }, status)
ErrorResponse(status, msg) ==
  [NoResponse EXCEPT !.status = status, !.keys = {"error"}, !.error = msg]

\* Mutant: the flag is sent as true whatever the QR code is
SuccessResponseFlagTrue(publicUrl, qrCodeDataUrl, fileName) ==
  [status |-> 200,
   keys |-> {"success", "imageUrl", "qrCode", "fileName", "qrCodeGenerated"},
   success |-> TRUE, error |-> "",
   imageUrl |-> publicUrl, qrCode |-> qrCodeDataUrl, fileName |-> fileName,
   qrCodeGenerated |-> TRUE]

\* c.json({ success, imageUrl, qrCode, fileName, qrCodeGenerated }) of part_000
SuccessResponse(publicUrl, qrCodeDataUrl, fileName) ==
  [status |-> 200,
   keys |-> {"success", "imageUrl", "qrCode", "fileName", "qrCodeGenerated"},
   success |-> TRUE, error |-> "",
   imageUrl |-> publicUrl, qrCode |-> qrCodeDataUrl, fileName |-> fileName,
   qrCodeGenerated |-> ~qrCodeDataUrl.isNull]

\* c.json({ success, imageUrl, qrCode, fileName }) of index.ts
SuccessResponseV1(publicUrl, qrCodeDataUrl, fileName) ==
  [status |-> 200,
   keys |-> {"success", "imageUrl", "qrCode", "fileName"},
   success |-> TRUE, error |-> "",
   imageUrl |-> publicUrl, qrCode |-> qrCodeDataUrl, fileName |-> fileName,
   qrCodeGenerated |-> FALSE]

(***************************************************************************)
(* State of one POST /api/upload.                                          *)
(*   pc     Idle, then the await the handler is suspended at: Validating   *)
(*          (formData), Storing (R2_BUCKET.put), Encoding (index.ts only:  *)
(*          QRCode.toDataURL), or Done (a response was returned)           *)
(*   enc    how the Encoding step ended: "", "Succeeded", "Degraded" or    *)
(*          "Failed" (index.ts: the request fails)                         *)
(*   timestamp, random  what Date.now() and Math.random() gave the key     *)
(*   calls  the R2_BUCKET operations the request has issued, each with     *)
(*          its key and whether it succeeded                               *)
(*   phases the steps the handler has entered, in order: Validating,       *)
(*          Storing, Resolving, Encoding, Responding                       *)
(*   sent   the number of responses returned                               *)
(***************************************************************************)
IdleRequest ==
  [pc |-> "Idle", form |-> FormNoFile, timestamp |-> 0, random |-> <<>>,
   fileName |-> <<>>, publicUrl |-> <<>>,
   qrCodeDataUrl |-> Null, enc |-> "", resp |-> NoResponse,
   calls |-> <<>>, phases |-> <<>>, sent |-> 0]

NoImageResponse ==
  [key |-> <<>>, status |-> 0, body |-> "", contentType |-> "", error |-> ""]

(***************************************************************************)
(* POST /api/qrcode: inputs and state.                                     *)
(***************************************************************************)
\* The encode requests a client sends one after the other: a request and
\* its retry
EncodeRequests == {1, 2}

\* An optional number or colour of the JSON body (given = FALSE: the key is
\* missing, the destructuring default applies)
NoNumber == [given |-> FALSE, v |-> 0]
Number(n) == [given |-> TRUE, v |-> n]
NoString == [given |-> FALSE, v |-> ""]
String(s) == [given |-> TRUE, v |-> s]

\* The JSON body of an encode request.  kind: "unparsable" (c.req.json()
\* rejects), "null" (the JSON text null) or "object"
Body(url, size, darkColor, lightColor, eccLevel) ==
  [kind |-> "object", url |-> url, size |-> size, darkColor |-> darkColor,
   lightColor |-> lightColor, eccLevel |-> eccLevel]

BodyUnparsable ==
  [Body(Null, NoNumber, NoString, NoString, NoString) EXCEPT !.kind = "unparsable"]
BodyNull ==
  [Body(Null, NoNumber, NoString, NoString, NoString) EXCEPT !.kind = "null"]

TextPlain == <<"h", "i">>
TextUrl == <<"h", "t", "t", "p", ":", "/", "/", "x">>
\* A URL of 2400 characters: more than a version-40 symbol holds at level M,
\* less than it holds at level L
TextLongUrl == TextUrl \o <<"/">> \o [i \in 1..2391 |-> "a"]

Bodies ==
  { BodyUnparsable,
    BodyNull,
    Body(Null, NoNumber, NoString, NoString, NoString),
    Body(Some(<<>>), NoNumber, NoString, NoString, NoString),
    Body(Some(TextPlain), NoNumber, NoString, NoString, NoString),
    Body(Some(TextUrl), NoNumber, NoString, NoString, NoString),
    Body(Some(TextUrl), Number(200), String("#ff0000"), String("#eeeeee"), String("H")),
    Body(Some(TextUrl), Number(0), String(""), NoString, NoString),
    Body(Some(TextLongUrl), NoNumber, NoString, NoString, NoString),
    Body(Some(TextLongUrl), NoNumber, NoString, NoString, String("L")) }

\* The body of a response of POST /api/qrcode, with its status
NoQrResponse ==
  [status |-> 0, keys |-> {}, success |-> FALSE, error |-> "", details |-> "",
   qrCode |-> <<>>]

\* State of one POST /api/qrcode.
\*   pc       Idle, Parsing (awaiting c.req.json()), Encoding (index.ts:
\*            awaiting QRCode.toDataURL) or Done
\*   encoded  the arguments of each call of the QR library made for the
\*            request
\*   lib      what the library did in that call: "" (not called), "svg",
\*            "png", "throws", "nosvg"
IdleEncode ==
  [pc |-> "Idle", body |-> BodyNull, encoded |-> <<>>, lib |-> "",
   resp |-> NoQrResponse, sent |-> 0]

(***************************************************************************)
(* Helper calls and the page.                                              *)
(***************************************************************************)
\* A JavaScript value passed as text: its type and, for a string, its
\* characters (for an array, the characters of its single element)
Value(type, v) == [type |-> type, v |-> v]

\* No helper was called yet
NoCall ==
  [fn |-> "none", text |-> Value("string", <<>>), name |-> <<>>, n |-> 0,
   ecl |-> "", run |-> [lib |-> "", btoa |-> ""],
   result |-> Returned(<<>>), version |-> 0]

\* The files the user selects, in the order of selection
Selections == {1, 2}

\* The page after init(): nothing selected, the result card a placeholder.
\* "null" is the script's null; a file, a key or a code is written with the
\* number of its selection in front
LoadedPage ==
  [ currentFileName |-> "null",
    currentOriginalFileName |-> "null",
    uploadCard |-> {},            \* uploadCard.classList
    previewShown |-> FALSE,       \* uploadPreviewContainer has 'show'
    uploadPreview |-> "",         \* uploadPreview.src
    previewFileName |-> "",       \* previewFileName.textContent
    progressBar |-> FALSE,        \* progressBar has 'show'
    hasResult |-> FALSE,          \* resultCard has 'has-result'
    qrImage |-> "",               \* qrImage.src
    toast |-> "",                 \* the latest toast
    selected |-> 0,               \* how many files were selected so far
    reader |-> [s \in Selections |-> "idle"],  \* FileReader of selection s
    upload |-> [s \in Selections |-> "idle"],  \* handleFile(s): its await
    lastEvent |-> "load" ]        \* the latest user event

Init ==
  /\ impl \in {"part_000", "index_ts"}
  /\ R2_PUBLIC_URL \in (IF impl = "part_000" THEN PublicUrlConfigs ELSE {<<>>})
  /\ now = ClockStart
  /\ bucket = <<>>
  /\ req = [r \in Requests |-> IdleRequest]
  /\ imgResp = NoImageResponse
  /\ qreq = [q \in EncodeRequests |-> IdleEncode]
  /\ call = NoCall
  /\ page = LoadedPage

\* The handler returns a response and ends
Return(rec, response) ==
  [rec EXCEPT !.pc = "Done", !.resp = response, !.sent = @ + 1]

Enter(rec, phase) ==
  [rec EXCEPT !.pc = phase, !.phases = Append(@, phase)]

(***************************************************************************)
(* POST /api/upload                                                        *)
(***************************************************************************)
\* A client sends an upload request; the handler awaits c.req.formData()
Submit(r) ==
  /\ req[r].pc = "Idle"
  /\ \A q \in Requests : q < r => req[q].pc # "Idle"
  /\ \E form \in FormInputs :
       req' = [req EXCEPT ![r] = Enter([@ EXCEPT !.form = form], "Validating")]
  /\ UNCHANGED <<impl, R2_PUBLIC_URL, now, bucket, imgResp, qreq, call, page>>

\* formData() settles; the file field is checked; the key is generated
\* (Date.now() returns a value not below the one it returned last) and the
\* handler awaits file.arrayBuffer() and R2_BUCKET.put
Validate(r) ==
  /\ req[r].pc = "Validating"
  /\ LET form == req[r].form
     IN IF form.kind = "unparsable"
        THEN /\ req' = [req EXCEPT ![r] = Return(@, ErrorResponse(500, uploadFailedMessage))]
             /\ now' = now
        ELSE IF validationError(form) # ""
        THEN /\ req' = [req EXCEPT ![r] =
                          Return(@, ErrorResponse(400, validationMessage(validationError(form))))]
             /\ now' = now
        ELSE \E timestamp \in now..(ClockStart + MaxTicks), random \in RandomSuffixes :
               /\ req' = [req EXCEPT ![r] =
                            Enter([@ EXCEPT !.timestamp = timestamp,
                                            !.random = random,
                                            !.fileName =
                                              generateFileName(form.name, timestamp, random)],
                                  "Storing")]
               /\ now' = timestamp
  /\ UNCHANGED <<impl, R2_PUBLIC_URL, bucket, imgResp, qreq, call, page>>

\* R2_BUCKET.put(key, value, {httpMetadata: {contentType}})
Put(b, key, body, contentType) ==
  [k \in (DOMAIN b) \cup {key} |->
     IF k = key THEN [body |-> body, contentType |-> contentType] ELSE b[k]]

\* Mutant: the store is read first, to see whether the key is taken
issuePutAfterGet(rec, ok) ==
  [rec EXCEPT !.calls =
     @ \o << [op |-> "get", key |-> rec.fileName, ok |-> TRUE],
             [op |-> "put", key |-> rec.fileName, ok |-> ok] >>]

\* The handler calls R2_BUCKET.put for its key; ok: the put will succeed
issuePut(rec, ok) ==
  [rec EXCEPT !.calls = Append(@, [op |-> "put", key |-> rec.fileName, ok |-> ok])]

\* The public address of the stored key is built
resolveStep(rec) ==
  Enter([rec EXCEPT !.publicUrl = publicUrlOf(rec.fileName)], "Resolving")

resolveStepV1(rec) ==
  Enter([rec EXCEPT !.publicUrl = proxyUrlOf(rec.fileName)], "Resolving")

\* part_000: the inner try/catch around the QR code
encodeStep(rec, run) ==
  LET publicUrl == rec.publicUrl
      qr == generateQRCode(publicUrl, run)
      at == Enter(rec, "Encoding")
  IN IF publicUrl = <<>> \/ ~URLParses(publicUrl) \/ qr.threw
     THEN [at EXCEPT !.enc = "Degraded"]
     ELSE IF qr.value = <<>> \/ ~StartsWith(qr.value, DataImage)
     THEN [at EXCEPT !.qrCodeDataUrl = Some(qr.value), !.enc = "Degraded"]
     ELSE [at EXCEPT !.qrCodeDataUrl = Some(qr.value), !.enc = "Succeeded"]

\* part_000: the success response is returned
respondStep(rec) ==
  Return(Enter(rec, "Responding"),
         SuccessResponse(rec.publicUrl, rec.qrCodeDataUrl, rec.fileName))

\* index.ts: the success response is returned
respondStepV1(rec) ==
  Return(Enter(rec, "Responding"),
         SuccessResponseV1(rec.publicUrl, rec.qrCodeDataUrl, rec.fileName))

\* Mutant: the stored object is deleted again when the QR encoding failed
StoreRollsBack(r) ==
  /\ impl = "part_000"
  /\ req[r].pc = "Storing"
  /\ \E ok \in BOOLEAN, run \in QrRuns :
       LET issued == issuePut(req[r], ok)
           encoded == encodeStep(resolveStep(issued), run)
           stored == Put(bucket, req[r].fileName, req[r].form.body, req[r].form.type)
       IN IF ok /\ encoded.enc = "Degraded"
          THEN /\ bucket' = [k \in (DOMAIN stored) \ {req[r].fileName} |-> stored[k]]
               /\ req' = [req EXCEPT ![r] =
                            respondStep([encoded EXCEPT !.calls =
                              Append(@, [op |-> "delete", key |-> req[r].fileName, ok |-> TRUE])])]
          ELSE IF ok
          THEN /\ bucket' = stored
               /\ req' = [req EXCEPT ![r] = respondStep(encoded)]
          ELSE /\ bucket' = bucket
               /\ req' = [req EXCEPT ![r] =
                            Return(issued, ErrorResponse(500, uploadFailedMessage))]
  /\ UNCHANGED <<impl, R2_PUBLIC_URL, now, imgResp, qreq, call, page>>

\* Mutant: the address is built before the put has settled
StoreResolvesFirst(r) ==
  /\ impl = "part_000"
  /\ req[r].pc = "Storing"
  /\ \E ok \in BOOLEAN, run \in QrRuns :
       LET resolved == resolveStep(issuePut(req[r], ok))
       IN IF ok
          THEN /\ bucket' = Put(bucket, req[r].fileName, req[r].form.body, req[r].form.type)
               /\ req' = [req EXCEPT ![r] = respondStep(encodeStep(resolved, run))]
          ELSE /\ bucket' = bucket
               /\ req' = [req EXCEPT ![r] =
                            Return(resolved, ErrorResponse(500, uploadFailedMessage))]
  /\ UNCHANGED <<impl, R2_PUBLIC_URL, now, imgResp, qreq, call, page>>

\* part_000: R2_BUCKET.put settles.  Stored: the rest of the handler runs
\* without another await (address, QR code, response).  Rejected: the outer
\* catch answers.
Store(r) ==
  /\ impl = "part_000"
  /\ req[r].pc = "Storing"
  /\ \E ok \in BOOLEAN, run \in QrRuns :
       LET issued == issuePut(req[r], ok)
       IN IF ok
          THEN /\ bucket' = Put(bucket, req[r].fileName, req[r].form.body, req[r].form.type)
               /\ req' = [req EXCEPT ![r] =
                            respondStep(encodeStep(resolveStep(issued), run))]
          ELSE /\ bucket' = bucket
               /\ req' = [req EXCEPT ![r] =
                            Return(issued, ErrorResponse(500, uploadFailedMessage))]
  /\ UNCHANGED <<impl, R2_PUBLIC_URL, now, imgResp, qreq, call, page>>

\* index.ts: R2_BUCKET.put settles.  Stored: the address is built and the
\* handler awaits QRCode.toDataURL.  Rejected: the catch answers.
StoreV1(r) ==
  /\ impl = "index_ts"
  /\ req[r].pc = "Storing"
  /\ \E ok \in BOOLEAN :
       LET issued == issuePut(req[r], ok)
       IN IF ok
          THEN /\ bucket' = Put(bucket, req[r].fileName, req[r].form.body, req[r].form.type)
               /\ req' = [req EXCEPT ![r] = Enter(resolveStepV1(issued), "Encoding")]
          ELSE /\ bucket' = bucket
               /\ req' = [req EXCEPT ![r] =
                            Return(issued, ErrorResponse(500, uploadFailedMessage))]
  /\ UNCHANGED <<impl, R2_PUBLIC_URL, now, imgResp, qreq, call, page>>

\* index.ts: QRCode.toDataURL settles.  Resolved: the success response.
\* Rejected: the catch answers.
EncodeV1(r) ==
  /\ impl = "index_ts"
  /\ req[r].pc = "Encoding"
  /\ \E run \in ToDataUrlRuns :
       LET qr == toDataURL(req[r].publicUrl, run)
       IN IF qr.threw
          THEN req' = [req EXCEPT ![r] =
                         Return([@ EXCEPT !.enc = "Failed"],
                                ErrorResponse(500, uploadFailedMessage))]
          ELSE req' = [req EXCEPT ![r] =
                         respondStepV1([@ EXCEPT !.qrCodeDataUrl = Some(qr.value),
                                                 !.enc = "Succeeded"])]
  /\ UNCHANGED <<impl, R2_PUBLIC_URL, now, bucket, imgResp, qreq, call, page>>

(***************************************************************************)
(* GET /images/:fileName                                                   *)
(***************************************************************************)
\* A key no upload can generate
MissingKey == <<"n", "o", "n", "e">>

\* The messages of the image route (index.ts's transliterated)
imageNotFoundMessage ==
  IF impl = "part_000" THEN "Image not found" ELSE "tupian bu cunzai"
imageFailedMessage ==
  IF impl = "part_000" THEN "Failed to get image" ELSE "huoqu tupian shibai"

Alphabet ==
  <<"a", "b", "c", "d", "e", "f", "g", "h", "i", "j", "k", "l", "m",
    "n", "o", "p", "q", "r", "s", "t", "u", "v", "w", "x", "y", "z">>
Capitals ==
  <<"A", "B", "C", "D", "E", "F", "G", "H", "I", "J", "K", "L", "M",
    "N", "O", "P", "Q", "R", "S", "T", "U", "V", "W", "X", "Y", "Z">>

\* s.toLowerCase()
toLowerCase(s) ==
  IF s = <<>> THEN <<>>
  ELSE [i \in 1..Len(s) |->
          IF s[i] \in Upper
          THEN Alphabet[CHOOSE k \in 1..26 : Capitals[k] = s[i]]
          ELSE s[i]]

\* The own properties of the object literal mimeTypes
mimeTypes ==
  [ext \in { <<"j", "p", "g">>, <<"j", "p", "e", "g">>, <<"p", "n", "g">>,
             <<"g", "i", "f">>, <<"w", "e", "b", "p">>, <<"s", "v", "g">>,
             <<"b", "m", "p">> } |->
     CASE ext = <<"j", "p", "g">> -> "image/jpeg"
       [] ext = <<"j", "p", "e", "g">> -> "image/jpeg"
       [] ext = <<"p", "n", "g">> -> "image/png"
       [] ext = <<"g", "i", "f">> -> "image/gif"
       [] ext = <<"w", "e", "b", "p">> -> "image/webp"
       [] ext = <<"s", "v", "g">> -> "image/svg+xml"
       [] ext = <<"b", "m", "p">> -> "image/bmp"]

\* What mimeTypes[name] gives for a name that is no own property: the
\* properties an object literal inherits from Object.prototype, as the text
\* a header is set to.  Of the inherited names only these two are left
\* unchanged by toLowerCase.
inheritedProperty ==
  [name \in { <<"c", "o", "n", "s", "t", "r", "u", "c", "t", "o", "r">>,
              <<"_", "_", "p", "r", "o", "t", "o", "_", "_">> } |->
     IF name = <<"c", "o", "n", "s", "t", "r", "u", "c", "t", "o", "r">>
     THEN "function Object() { [native code] }"
     ELSE "[object Object]"]

\* getMimeType(fileName)
getMimeType(fileName) ==
  LET ext == toLowerCase(SplitPop(fileName, "."))
  IN IF ext \in DOMAIN mimeTypes THEN mimeTypes[ext]
     ELSE IF ext \in DOMAIN inheritedProperty THEN inheritedProperty[ext]
     ELSE "application/octet-stream"

\* object.httpMetadata?.contentType || getMimeType(fileName)
contentTypeOf(object, fileName) ==
  IF object.contentType # "" THEN object.contentType
  ELSE getMimeType(fileName)

\* Mutant: a failed store read is answered as if the key were missing
GetImageHidesReadError(fileName) ==
  /\ \E ok \in BOOLEAN :
       imgResp' =
         IF ~ok \/ fileName \notin DOMAIN bucket
         THEN [NoImageResponse EXCEPT !.key = fileName, !.status = 404,
                                      !.error = imageNotFoundMessage]
         ELSE [NoImageResponse EXCEPT !.key = fileName, !.status = 200,
                                      !.body = bucket[fileName].body,
                                      !.contentType = contentTypeOf(bucket[fileName], fileName)]
  /\ UNCHANGED <<impl, R2_PUBLIC_URL, now, bucket, req, qreq, call, page>>

\* ok: R2_BUCKET.get resolves (with the object or null); ~ok: it rejects
GetImage(fileName) ==
  /\ \E ok \in BOOLEAN :
       imgResp' =
         IF ~ok
         THEN [NoImageResponse EXCEPT !.key = fileName, !.status = 500,
                                      !.error = imageFailedMessage]
         ELSE IF fileName \notin DOMAIN bucket
         THEN [NoImageResponse EXCEPT !.key = fileName, !.status = 404,
                                      !.error = imageNotFoundMessage]
         ELSE [NoImageResponse EXCEPT !.key = fileName, !.status = 200,
                                      !.body = bucket[fileName].body,
                                      !.contentType = contentTypeOf(bucket[fileName], fileName)]
  /\ UNCHANGED <<impl, R2_PUBLIC_URL, now, bucket, req, qreq, call, page>>

\* The path of an absolute http(s) URL as the worker receives it: the text
\* after the host up to the query ('?') or the fragment ('#')
PathOf(u) ==
  LET colon == IndexOfFrom(u, ":", 1)
      rest == SkipSlashes(u, colon + 1)
      host == HostOf(rest)
      tail == SubSeq(rest, Len(host) + 1, Len(rest))
      ends == {i \in 1..Len(tail) : tail[i] \in {"?", "#"}}
      stop == IF ends = {} THEN Len(tail) + 1
              ELSE CHOOSE i \in ends : \A j \in ends : i <= j
  IN SubSeq(tail, 1, stop - 1)

\* The route '/images/:fileName' applied to a URL: whether it matches (one
\* non-empty path segment after /images/) and c.req.param('fileName').  The
\* keys of the model hold no '%', so the parameter's percent-decoding leaves
\* them as they are.
routeImages(u) ==
  LET path == PathOf(u)
      param == SubSeq(path, Len(ImagesPath) + 1, Len(path))
  IN IF StartsWith(path, ImagesPath) /\ param # <<>>
        /\ \A i \in 1..Len(param) : param[i] # "/"
     THEN [matched |-> TRUE, fileName |-> param]
     ELSE [matched |-> FALSE, fileName |-> <<>>]

\* A client requests the imageUrl of a success response that points at the
\* worker itself
FetchImage(r) ==
  /\ R2_PUBLIC_URL = <<>>
  /\ req[r].pc = "Done" /\ req[r].resp.success
  /\ routeImages(req[r].resp.imageUrl).matched
  /\ GetImage(routeImages(req[r].resp.imageUrl).fileName)

(***************************************************************************)
(* POST /api/qrcode                                                        *)
(***************************************************************************)
MsgNoUrl == "Please provide a URL"
MsgBadUrl == "Invalid URL format"
MsgQrFailed == "Failed to generate QR code"
\* The messages of index.ts, transliterated
MsgNoUrlV1 == "qing tigong URL"
MsgQrFailedV1 == "shengcheng erweima shibai"

\* The message of the exception c.req.json() rejects with, and of the
\* TypeError of destructuring null
MsgJsonError == "Unexpected token in JSON"
MsgDestructureNull == "Cannot destructure property 'url' of 'body' as it is null."

\* const { url, size = 300, darkColor = '#000000', lightColor = '#ffffff' } = body
destructure(body) ==
  [url |-> body.url,
   size |-> IF body.size.given THEN body.size.v ELSE 300,
   darkColor |-> IF body.darkColor.given THEN body.darkColor.v ELSE "#000000",
   lightColor |-> IF body.lightColor.given THEN body.lightColor.v ELSE "#ffffff"]

\* Mutant: the level is taken from the body's eccLevel
qrOptionsFromBody(body) ==
  LET d == destructure(body)
  IN [width |-> d.size, margin |-> 2, dark |-> d.darkColor, light |-> d.lightColor,
      errorCorrectionLevel |-> IF body.eccLevel.given THEN body.eccLevel.v ELSE "M"]

\* Mutant: the two colours are swapped
qrOptionsSwapped(body) ==
  LET d == destructure(body)
  IN [width |-> d.size, margin |-> 2, dark |-> d.lightColor, light |-> d.darkColor,
      errorCorrectionLevel |-> "M"]

\* The options the handler of part_000 passes to generateQRCode
qrOptions(body) ==
  LET d == destructure(body)
  IN [width |-> d.size, margin |-> 2, dark |-> d.darkColor, light |-> d.lightColor,
      errorCorrectionLevel |-> "M"]

\* The arguments of new QRCode({...}) in generateQRCode (a || b: b when a is
\* 0 or the empty string)
QRCodeArgs(text, options) ==
  [content |-> text,
   width |-> IF options.width # 0 THEN options.width ELSE 300,
   padding |-> options.margin * 4,
   color |-> IF options.dark # "" THEN options.dark ELSE "#000000",
   background |-> IF options.light # "" THEN options.light ELSE "#ffffff",
   ecl |-> IF options.errorCorrectionLevel # "" THEN options.errorCorrectionLevel ELSE "M"]

\* The arguments of QRCode.toDataURL in index.ts, named as above (padding:
\* the margin; ecl: no level is passed, the library takes M)
toDataURLArgs(text, body) ==
  LET d == destructure(body)
  IN [content |-> text, width |-> d.size, padding |-> 2,
      color |-> d.darkColor, background |-> d.lightColor, ecl |-> "M"]

\* The bytes a version-40 symbol holds at each error-correction level
capacityOf(ecl) ==
  CASE ecl = "L" -> 2953
    [] ecl = "M" -> 2331
    [] ecl = "Q" -> 1663
    [] ecl = "H" -> 1273

\* The encoder fails with a capacity error: the content is longer than the
\* largest symbol holds at the level
capacityExceeded(args) == Len(args.content) > capacityOf(args.ecl)

\* What the library does with the arguments in a run
libRun(args, run) ==
  IF capacityExceeded(args) THEN [run EXCEPT !.lib = "throws"] ELSE run

libRunV1(args, run) ==
  IF capacityExceeded(args) THEN "rejects" ELSE run

\* c.json({ error }, 400)
QrRejected(msg) ==
  [NoQrResponse EXCEPT !.status = 400, !.keys = {"error"}, !.error = msg]

\* Mutant: the catch reports success: false
QrFailedWithFlag(errorMessage) ==
  [NoQrResponse EXCEPT !.status = 500, !.keys = {"success", "error"},
                       !.error = MsgQrFailed, !.details = errorMessage]

\* c.json({ error, details: errorMessage }, 500) of part_000's catch
QrFailed(errorMessage) ==
  [NoQrResponse EXCEPT !.status = 500, !.keys = {"error", "details"},
                       !.error = MsgQrFailed, !.details = errorMessage]

\* c.json({ error }, 500) of index.ts's catch
QrFailedV1 ==
  [NoQrResponse EXCEPT !.status = 500, !.keys = {"error"}, !.error = MsgQrFailedV1]

\* c.json({ success: true, qrCode })
QrSuccess(qrCodeDataUrl) ==
  [NoQrResponse EXCEPT !.status = 200, !.keys = {"success", "qrCode"},
                       !.success = TRUE, !.qrCode = qrCodeDataUrl]

ReturnQr(rec, response) ==
  [rec EXCEPT !.pc = "Done", !.resp = response, !.sent = @ + 1]

\* Mutant: only a missing key is caught, the empty string passes
urlMissingOnlyAbsent(body) == body.url.isNull

\* !url
urlMissing(body) == body.url.isNull \/ body.url.v = <<>>

\* A client sends an encode request; the handler awaits c.req.json()
SubmitEncode(q) ==
  /\ qreq[q].pc = "Idle"
  /\ \A p \in EncodeRequests : p < q => qreq[p].pc = "Done"
  /\ \E body \in Bodies :
       qreq' = [qreq EXCEPT ![q] = [@ EXCEPT !.pc = "Parsing", !.body = body]]
  /\ UNCHANGED <<impl, R2_PUBLIC_URL, now, bucket, req, imgResp, call, page>>

\* Mutant: the URL format check is missing
qrCodeStepAnyText(rec, run) ==
  LET body == rec.body
      args == QRCodeArgs(body.url.v, qrOptions(body))
      ran == libRun(args, run)
      qr == generateQRCode(body.url.v, ran)
      called == [rec EXCEPT !.encoded = Append(@, args), !.lib = ran.lib]
  IN IF body.kind = "unparsable" THEN ReturnQr(rec, QrFailed(MsgJsonError))
     ELSE IF body.kind = "null" THEN ReturnQr(rec, QrFailed(MsgDestructureNull))
     ELSE IF urlMissing(body) THEN ReturnQr(rec, QrRejected(MsgNoUrl))
     ELSE IF qr.threw THEN ReturnQr(called, QrFailed(qr.message))
     ELSE ReturnQr(called, QrSuccess(qr.value))

\* part_000: the handler from the settling of c.req.json() to its response
\* (generateQRCode is synchronous)
qrCodeStep(rec, run) ==
  LET body == rec.body
      args == QRCodeArgs(body.url.v, qrOptions(body))
      ran == libRun(args, run)
      qr == generateQRCode(body.url.v, ran)
      called == [rec EXCEPT !.encoded = Append(@, args), !.lib = ran.lib]
  IN IF body.kind = "unparsable" THEN ReturnQr(rec, QrFailed(MsgJsonError))
     ELSE IF body.kind = "null" THEN ReturnQr(rec, QrFailed(MsgDestructureNull))
     ELSE IF urlMissing(body) THEN ReturnQr(rec, QrRejected(MsgNoUrl))
     ELSE IF ~URLParses(body.url.v) THEN ReturnQr(rec, QrRejected(MsgBadUrl))
     ELSE IF qr.threw THEN ReturnQr(called, QrFailed(qr.message))
     ELSE IF qr.value = <<>> \/ ~StartsWith(qr.value, DataImage)
     THEN ReturnQr(called, QrFailed("QR code generation returned invalid data"))
     ELSE ReturnQr(called, QrSuccess(qr.value))

QrCode(q) ==
  /\ impl = "part_000"
  /\ qreq[q].pc = "Parsing"
  /\ \E run \in QrRuns : qreq' = [qreq EXCEPT ![q] = qrCodeStep(@, run)]
  /\ UNCHANGED <<impl, R2_PUBLIC_URL, now, bucket, req, imgResp, call, page>>

\* index.ts: c.req.json() settles; the handler answers or awaits
\* QRCode.toDataURL
QrCodeV1(q) ==
  /\ impl = "index_ts"
  /\ qreq[q].pc = "Parsing"
  /\ LET body == qreq[q].body
     IN qreq' = [qreq EXCEPT ![q] =
          IF body.kind \in {"unparsable", "null"} THEN ReturnQr(@, QrFailedV1)
          ELSE IF urlMissing(body) THEN ReturnQr(@, QrRejected(MsgNoUrlV1))
          ELSE [@ EXCEPT !.pc = "Encoding",
                         !.encoded = Append(@, toDataURLArgs(body.url.v, body))]]
  /\ UNCHANGED <<impl, R2_PUBLIC_URL, now, bucket, req, imgResp, call, page>>

\* index.ts: QRCode.toDataURL settles
QrCodeSettleV1(q) ==
  /\ impl = "index_ts"
  /\ qreq[q].pc = "Encoding"
  /\ \E run \in ToDataUrlRuns :
       LET ran == libRunV1(qreq[q].encoded[1], run)
           qr == toDataURL(qreq[q].body.url.v, ran)
       IN qreq' = [qreq EXCEPT ![q] =
            IF qr.threw THEN ReturnQr([@ EXCEPT !.lib = "throws"], QrFailedV1)
            ELSE ReturnQr([@ EXCEPT !.lib = "png"], QrSuccess(qr.value))]
  /\ UNCHANGED <<impl, R2_PUBLIC_URL, now, bucket, req, imgResp, call, page>>

\* The upload handler alone
Upload ==
  \/ \E r \in Requests : Submit(r)
  \/ \E r \in Requests : Validate(r)
  \/ \E r \in Requests : Store(r)
  \/ \E r \in Requests : StoreV1(r)
  \/ \E r \in Requests : EncodeV1(r)

Next ==
  \/ Upload
  \/ \E k \in (DOMAIN bucket) \cup {MissingKey} : GetImage(k)
  \/ \E r \in Requests : FetchImage(r)

\* Uploads and image requests
Spec == Init /\ [][Next]_vars

\* Uploads only
UploadSpec == Init /\ [][Upload]_vars

\* Uploads only, every awaited promise settling: a handler suspended at an
\* await is resumed
FairUploadSpec ==
  /\ UploadSpec
  /\ \A r \in Requests :
       /\ WF_vars(Validate(r))
       /\ WF_vars(Store(r))
       /\ WF_vars(StoreV1(r))
       /\ WF_vars(EncodeV1(r))


\* The encode handler alone
Encode ==
  \/ \E q \in EncodeRequests : SubmitEncode(q)
  \/ \E q \in EncodeRequests : QrCode(q)
  \/ \E q \in EncodeRequests : QrCodeV1(q)
  \/ \E q \in EncodeRequests : QrCodeSettleV1(q)

\* Encode requests only
EncodeSpec == Init /\ [][Encode]_vars

\* One publish request and one encode request
Api ==
  \/ Submit(1)
  \/ Validate(1)
  \/ Store(1)
  \/ StoreV1(1)
  \/ EncodeV1(1)
  \/ SubmitEncode(1)
  \/ QrCode(1)
  \/ QrCodeV1(1)
  \/ QrCodeSettleV1(1)

ApiSpec == Init /\ [][Api]_vars

(***************************************************************************)
(* The capacity selector of the encoder.                                   *)
(***************************************************************************)
\* The error-correction levels, in the order of the table's columns
Levels == <<"L", "M", "Q", "H">>

\* The largest symbol version
MaxVersion == 40

\* The longest content tried, in bytes of UTF-8 (above every capacity)
MaxContentLength == 2960

\* The standard's table: the bytes of content a symbol of version v holds
\* at level L, M, Q, H, the mode indicator, the length field and the
\* terminator taken off its data codewords
CapacityTable ==
  <<
    <<17, 14, 11, 7>>, <<32, 26, 20, 14>>, <<53, 42, 32, 24>>, <<78, 62, 46, 34>>,
    <<106, 84, 60, 44>>, <<134, 106, 74, 58>>, <<154, 122, 86, 64>>, <<192, 152, 108, 84>>,
    <<230, 180, 130, 98>>, <<271, 213, 151, 119>>, <<321, 251, 177, 137>>, <<367, 287, 203, 155>>,
    <<425, 331, 241, 177>>, <<458, 362, 258, 194>>, <<520, 412, 292, 220>>, <<586, 450, 322, 250>>,
    <<644, 504, 364, 280>>, <<718, 560, 394, 310>>, <<792, 624, 442, 338>>, <<858, 666, 482, 382>>,
    <<929, 711, 509, 403>>, <<1003, 779, 565, 439>>, <<1091, 857, 611, 461>>, <<1171, 911, 661, 511>>,
    <<1273, 997, 715, 535>>, <<1367, 1059, 751, 593>>, <<1465, 1125, 805, 625>>, <<1528, 1190, 868, 658>>,
    <<1628, 1264, 908, 698>>, <<1732, 1370, 982, 742>>, <<1840, 1452, 1030, 790>>, <<1952, 1538, 1112, 842>>,
    <<2068, 1628, 1168, 898>>, <<2188, 1722, 1228, 958>>, <<2303, 1809, 1283, 983>>, <<2431, 1911, 1351, 1051>>,
    <<2563, 1989, 1423, 1093>>, <<2699, 2099, 1499, 1139>>, <<2809, 2213, 1579, 1219>>, <<2953, 2331, 1663, 1273>> >>

dataCapacity(version, ecl) ==
  CapacityTable[version][CHOOSE i \in 1..4 : Levels[i] = ecl]

\* Mutant: a version is taken only when the content is shorter than its
\* capacity
RECURSIVE scanVersionsStrict(_, _, _)
scanVersionsStrict(length, ecl, version) ==
  IF version > MaxVersion THEN 0
  ELSE IF length < dataCapacity(version, ecl) THEN version
  ELSE scanVersionsStrict(length, ecl, version + 1)

\* The versions are tried from `version` upwards and the first that holds
\* the content is taken; 0 when none does
RECURSIVE scanVersions(_, _, _)
scanVersions(length, ecl, version) ==
  IF version > MaxVersion THEN 0
  ELSE IF length <= dataCapacity(version, ecl) THEN version
  ELSE scanVersions(length, ecl, version + 1)

\* The selector's outcome for content of `length` bytes at level ecl
selectVersion(length, ecl) ==
  LET version == scanVersions(length, ecl, 1)
  IN IF version = 0
     THEN [result |-> Thrown("CapacityExceededError"), version |-> 0]
     ELSE [result |-> Returned(<<>>), version |-> version]

\* One encoding: the selector runs on the content's length and the level
SelectVersion ==
  \E length \in 1..MaxContentLength, i \in 1..4 :
    LET selected == selectVersion(length, Levels[i])
    IN /\ call = NoCall
       /\ call' = [NoCall EXCEPT !.fn = "QRCode", !.n = length,
                                 !.ecl = Levels[i],
                                 !.result = selected.result,
                                 !.version = selected.version]
       /\ UNCHANGED <<impl, R2_PUBLIC_URL, now, bucket, req, imgResp, qreq, page>>

\* The worker of part_000 deployed without a public base, nothing called
Deployed == Init /\ impl = "part_000" /\ R2_PUBLIC_URL = <<>>

(***************************************************************************)
(* Calls of the worker's helpers.                                          *)
(***************************************************************************)
\* The names of uploaded files: with an extension, without one, ending in
\* a dot, with two dots
OriginalNames ==
  { <<"a", ".", "p", "n", "g">>, <<"p", "h", "o", "t", "o">>,
    <<"a", ".">>, <<"a", ".", "t", "a", "r", ".", "g", "z">> }

\* Math.random().toString(36) for 0, for 0.5 and for a fraction of many
\* digits
RandomTexts ==
  { <<"0">>, <<"0", ".", "i">>,
    <<"0", ".", "k", "3", "x", "9", "q", "z", "7", "b", "2">> }

\* s.substring(2, 8)
substring2to8(s) ==
  SubSeq(s, 3, IF Len(s) < 8 THEN Len(s) ELSE 8)

\* generateFileName is called for an uploaded file
GenerateFileName ==
  /\ call = NoCall
  /\ \E originalName \in OriginalNames, random \in RandomTexts,
        timestamp \in ClockStart..(ClockStart + MaxTicks) :
       call' = [NoCall EXCEPT
                  !.fn = "generateFileName", !.name = originalName,
                  !.n = timestamp,
                  !.text = Value("string", substring2to8(random)),
                  !.result = Returned(generateFileName(originalName, timestamp,
                                                       substring2to8(random)))]
  /\ UNCHANGED <<impl, R2_PUBLIC_URL, now, bucket, req, imgResp, qreq, page>>

\* The values generateQRCode is called with: the url of an encode request
\* is any JSON value that passes `!url` and new URL(url), a one-element
\* array of a URL text among them
TextValues ==
  { Value("string", TextUrl), Value("string", <<>>),
    Value("array", TextUrl) }

\* generateQRCode(text) for a value of any type.  A value that is no string
\* fails the check of lines 15-17; the catch then logs
\* text.substring(0, 100), which throws a TypeError of its own for it
generateQRCodeOf(text, run) ==
  IF text.type = "string" THEN generateQRCode(text.v, run)
  ELSE Thrown("text.substring is not a function")

\* generateQRCode is called
GenerateQRCode ==
  /\ call = NoCall
  /\ \E text \in TextValues, run \in QrRuns :
       call' = [NoCall EXCEPT !.fn = "generateQRCode", !.text = text,
                             !.run = run,
                             !.result = generateQRCodeOf(text, run)]
  /\ UNCHANGED <<impl, R2_PUBLIC_URL, now, bucket, req, imgResp, qreq, page>>

Helpers ==
  \/ SelectVersion
  \/ GenerateFileName
  \/ GenerateQRCode

\* One call of a helper
HelperSpec == Deployed /\ [][Helpers]_vars

(***************************************************************************)
(* Objects the bucket holds without an upload through the worker.          *)
(***************************************************************************)
\* The keys of such objects
ObjectKeys ==
  { <<"a", ".", "j", "p", "g">>, <<"a", ".", "J", "P", "E", "G">>,
    <<"a", ".", "P", "n", "g">>, <<"a", ".", "g", "i", "f">>,
    <<"a", ".", "w", "e", "b", "p">>, <<"a", ".", "S", "V", "G">>,
    <<"a", ".", "b", "m", "p">>, <<"a", ".", "t", "x", "t">>,
    <<"a">>, <<"a", ".">>,
    <<"a", ".", "c", "o", "n", "s", "t", "r", "u", "c", "t", "o", "r">> }

\* The content type such an object is stored with ("": none)
ObjectTypes == {"", "image/png", "text/plain"}

\* An object is written to the bucket from outside the worker (the
\* dashboard, the R2 API), with a content type or without one
PutObject ==
  /\ bucket = <<>>
  /\ \E key \in ObjectKeys, contentType \in ObjectTypes :
       bucket' = Put(bucket, key, "bytes", contentType)
  /\ UNCHANGED <<impl, R2_PUBLIC_URL, now, req, imgResp, qreq, call, page>>

Images ==
  \/ PutObject
  \/ \E k \in (DOMAIN bucket) \cup {MissingKey} : GetImage(k)

\* Image requests over a bucket filled from outside
ImageSpec == Init /\ [][Images]_vars

\* One publish request, one encode request and image requests
Routes ==
  \/ Api
  \/ \E k \in (DOMAIN bucket) \cup {MissingKey} : GetImage(k)

RoutesSpec == Init /\ [][Routes]_vars

(***************************************************************************)
(* The page script: handleFile, showPreview, resetPreview.                 *)
(***************************************************************************)
\* Per selection: file.name, the data URL the FileReader gives for the
\* file, and the fileName and qrCode of the server's success response
FileNames == <<"first.png", "second.png">>
PreviewUrls == <<"data:first", "data:second">>
UploadedNames == <<"1-a.png", "2-b.png">>
QrCodes == <<"data:image/svg+xml;base64,first", "data:image/svg+xml;base64,second">>

\* The picture qrImage is set to when the response holds no qrCode (the
\* literal of line 1595, shortened)
QrPlaceholder == "data:image/svg+xml;base64,PHN2Zy"

\* How the upload of a selection ends
\*   "qr"      response.ok, data.qrCode is a data URL
\*   "noqr"    response.ok, data.qrCode is null
\*   "failed"  fetch or response.json() rejects, or !response.ok
UploadOutcomes == {"qr", "noqr", "failed"}

\* uploadCard.classList.remove(...) and .add(...)
classListRemove(classes, names) == classes \ names
classListAdd(classes, names) == classes \cup names

\* handleFile(file) up to its first await, showPreview(file) included: the
\* user selects or drops file s
handleFile(s) ==
  /\ s \in Selections
  /\ s = page.selected + 1
  /\ page' = [page EXCEPT
       !.selected = s,
       !.lastEvent = "select",
       !.currentOriginalFileName = FileNames[s],
       !.previewFileName = FileNames[s],
       !.reader[s] = "reading",
       !.uploadCard =
          classListAdd(classListRemove(@, {"upload-success", "upload-error"}),
                       {"uploading"}),
       !.progressBar = TRUE,
       !.hasResult = FALSE,
       !.upload[s] = "awaiting"]
  /\ UNCHANGED <<impl, R2_PUBLIC_URL, now, bucket, req, imgResp, qreq, call>>

\* reader.onload of showPreview(file s)
readerOnload(s) ==
  /\ page.reader[s] = "reading"
  /\ page' = [page EXCEPT
       !.reader[s] = "loaded",
       !.uploadPreview = PreviewUrls[s],
       !.previewShown = TRUE,
       !.uploadCard = classListAdd(@, {"has-preview"})]
  /\ UNCHANGED <<impl, R2_PUBLIC_URL, now, bucket, req, imgResp, qreq, call>>

\* handleFile(file s) from the settling of its awaits (fetch, then
\* response.json()) to its end: the try's remainder or the catch
handleFileResumed(s, outcome) ==
  IF outcome = "failed"
  THEN [page EXCEPT
          !.upload[s] = outcome,
          !.uploadCard =
             classListAdd(classListRemove(@, {"uploading", "upload-success"}),
                          {"upload-error"}),
          !.progressBar = FALSE,
          !.toast = "uploadError"]
  ELSE [page EXCEPT
          !.upload[s] = outcome,
          !.currentFileName = UploadedNames[s],
          !.qrImage = IF outcome = "qr" THEN QrCodes[s] ELSE QrPlaceholder,
          !.toast = IF outcome = "qr" THEN @ ELSE "qrGenerationFailed",
          !.uploadCard =
             classListAdd(classListRemove(@, {"uploading", "upload-error"}),
                          {"upload-success"}),
          !.progressBar = FALSE,
          !.hasResult = TRUE]

\* The upload of selection s ends and handleFile goes on
UploadSettles(s) ==
  /\ page.upload[s] = "awaiting"
  /\ \E outcome \in UploadOutcomes : page' = handleFileResumed(s, outcome)
  /\ UNCHANGED <<impl, R2_PUBLIC_URL, now, bucket, req, imgResp, qreq, call>>

\* resetPreview(), run by a click on previewRemove; the button is displayed
\* only while uploadPreviewContainer has 'show'
resetPreview ==
  /\ page.previewShown
  /\ page' = [page EXCEPT
       !.lastEvent = "reset",
       !.uploadCard =
          classListRemove(@, {"has-preview", "upload-success", "upload-error",
                              "uploading"}),
       !.previewShown = FALSE,
       !.uploadPreview = "",
       !.currentFileName = "null",
       !.currentOriginalFileName = "null",
       !.hasResult = FALSE]
  /\ UNCHANGED <<impl, R2_PUBLIC_URL, now, bucket, req, imgResp, qreq, call>>

Page ==
  \/ \E s \in Selections : handleFile(s)
  \/ \E s \in Selections : readerOnload(s)
  \/ \E s \in Selections : UploadSettles(s)
  \/ resetPreview

\* The page in a browser
PageSpec == Deployed /\ [][Page]_vars

(***************************************************************************)
(* Vocabulary of the claims.                                               *)
(***************************************************************************)
\* The request passed validation: the handler went on to the put
Accepted(r) == Len(req[r].phases) >= 2

\* The request's put was issued and succeeded / was rejected by the store
StoredOk(r) == \E i \in 1..Len(req[r].calls) : req[r].calls[i].op = "put" /\ req[r].calls[i].ok
StoreFailed(r) == \E i \in 1..Len(req[r].calls) : req[r].calls[i].op = "put" /\ ~req[r].calls[i].ok

\* The request was answered with the success response
Succeeded(r) == req[r].pc = "Done" /\ req[r].resp.success

(***************************************************************************)
(* C1: part_000, upload handler.  Whenever the put succeeded and the QR    *)
(* encoding then failed, the request is answered with the success          *)
(* response: status 200, success true, qrCode null, qrCodeGenerated false, *)
(* fileName and imageUrl set to the stored key and its address; it carries *)
(* no error.                                                               *)
(***************************************************************************)
C1_DegradedUploadSucceeds ==
  \A r \in Requests :
    (impl = "part_000" /\ req[r].pc = "Done" /\ StoredOk(r) /\ req[r].enc # "Succeeded")
      => LET resp == req[r].resp
         IN /\ resp.status = 200
            /\ resp.success
            /\ "error" \notin resp.keys
            /\ {"success", "qrCode", "qrCodeGenerated", "fileName", "imageUrl"} \subseteq resp.keys
            /\ resp.qrCode.isNull
            /\ ~resp.qrCodeGenerated
            /\ resp.fileName = req[r].fileName /\ resp.fileName # <<>>
            /\ resp.imageUrl = req[r].publicUrl /\ resp.imageUrl # <<>>

\* A stored upload whose QR encoding failed has been answered
C1_Witness ==
  \E r \in Requests :
    /\ impl = "part_000" /\ req[r].pc = "Done" /\ StoredOk(r)
    /\ req[r].enc = "Degraded" /\ URLParses(req[r].publicUrl)
    /\ req[r].resp.success /\ req[r].resp.qrCode.isNull


\* part_000: the put succeeded, the QR encoding failed, the response is out
Degraded(r) ==
  impl = "part_000" /\ req[r].pc = "Done" /\ StoredOk(r) /\ req[r].enc = "Degraded"

\* The object request r put under its key
ObjectOf(r) == [body |-> req[r].form.body, contentType |-> req[r].form.type]

\* The requests whose put stored an object under r's key, r included
WritersOfKey(r) ==
  {q \in Requests : StoredOk(q) /\ req[q].fileName = req[r].fileName}

(***************************************************************************)
(* C2 as stated: after a publish request whose encoding failed, the object *)
(* under the returned key, which a later GET /images/{key} reads, is the   *)
(* payload that request stored.  Refuted: another accepted request that    *)
(* drew the same timestamp, random suffix and extension stores its own     *)
(* payload under the same key.                                             *)
(***************************************************************************)
C2_Original ==
  \A r \in Requests :
    Degraded(r) =>
      /\ req[r].fileName \in DOMAIN bucket
      /\ bucket[req[r].fileName] = ObjectOf(r)

(***************************************************************************)
(* C2 amended: a publish request whose encoding failed after a successful  *)
(* store has issued exactly one put, for its key, and nothing else (no     *)
(* delete, no second put); its key stays in the blob store, holding the    *)
(* payload of that request or of another accepted request that generated   *)
(* the same key; and a later GET /images/{key} for the returned key never  *)
(* answers 404: when the store read succeeds it returns those bytes.       *)
(***************************************************************************)
C2_DegradedKeepsObject ==
  \A r \in Requests :
    Degraded(r) =>
      /\ req[r].calls = << [op |-> "put", key |-> req[r].fileName, ok |-> TRUE] >>
      /\ req[r].fileName \in DOMAIN bucket
      /\ bucket[req[r].fileName] \in {ObjectOf(q) : q \in WritersOfKey(r)}

C2_LaterGetReturnsObject ==
  \A r \in Requests :
    (Degraded(r) /\ imgResp' # imgResp /\ imgResp'.key = req[r].fileName)
      => \/ imgResp'.status = 500
         \/ /\ imgResp'.status = 200
            /\ imgResp'.body \in {req[q].form.body : q \in WritersOfKey(r)}
            /\ imgResp'.body = bucket[req[r].fileName].body

C2_Amended == [](C2_DegradedKeepsObject) /\ [][C2_LaterGetReturnsObject]_vars

\* The stored payload of a degraded upload has been served by a later GET
C2_Witness ==
  \E r \in Requests :
    /\ Degraded(r)
    /\ imgResp.key = req[r].fileName
    /\ imgResp.status = 200
    /\ imgResp.body = req[r].form.body


\* The validation rules as the interface states them
StatedTypes ==
  {"image/jpeg", "image/png", "image/gif", "image/webp", "image/svg+xml", "image/bmp"}
StatedCeiling == 10 * 1024 * 1024

\* The file field breaks a validation rule
MustReject(form) ==
  \/ form.kind = "nofile"
  \/ form.kind = "file" /\ (form.type \notin StatedTypes \/ form.size > StatedCeiling)

\* The handler has finished validating request r
Validated(r) == req[r].pc \notin {"Idle", "Validating"}

(***************************************************************************)
(* C3: both versions.  A publish request that breaks a validation rule (no *)
(* file, a type outside the allowed set, a size over the ceiling) is       *)
(* answered 400 having issued no blob-store operation and attempted no QR  *)
(* encoding, and no step of such a request changes the blob store.         *)
(***************************************************************************)
C3_RejectedDidNothing ==
  \A r \in Requests :
    (Validated(r) /\ MustReject(req[r].form))
      => /\ req[r].pc = "Done"
         /\ req[r].resp.status = 400
         /\ ~req[r].resp.success
         /\ req[r].calls = <<>>
         /\ req[r].phases = <<"Validating">>
         /\ req[r].enc = ""
         /\ req[r].qrCodeDataUrl.isNull
         /\ req[r].fileName = <<>>

C3_RejectedLeavesStore ==
  \A r \in Requests :
    (req'[r] # req[r] /\ MustReject(req'[r].form)) => bucket' = bucket

C3_ValidationHasNoSideEffect ==
  [](C3_RejectedDidNothing) /\ [][C3_RejectedLeavesStore]_vars

\* An oversized file and a file of a disallowed type have both been rejected
C3_Witness ==
  \E r, q \in Requests :
    /\ req[r].pc = "Done" /\ req[r].form.kind = "file"
    /\ req[r].form.size > StatedCeiling /\ req[r].resp.status = 400
    /\ req[q].pc = "Done" /\ req[q].form.kind = "file"
    /\ req[q].form.type \notin StatedTypes /\ req[q].resp.status = 400

(***************************************************************************)
(* C4: both versions.  If the blob-store put fails, the request ends with  *)
(* the generic failure response (status 500, the handler's one fixed       *)
(* message, nothing else in the body); no address was resolved, no QR      *)
(* encoding was attempted and no success response was produced.            *)
(***************************************************************************)
C4_StoreFailureIsTerminal ==
  \A r \in Requests :
    StoreFailed(r)
      => /\ req[r].pc = "Done"
         /\ req[r].resp.status = 500
         /\ req[r].resp.keys = {"error"}
         /\ req[r].resp.error = (IF impl = "part_000"
                                 THEN "Upload failed, please try again"
                                 ELSE "shangchuan shibai, qing chongshi")
         /\ ~req[r].resp.success
         /\ req[r].sent = 1
         /\ req[r].publicUrl = <<>>
         /\ req[r].phases = <<"Validating", "Storing">>
         /\ req[r].enc = ""
         /\ req[r].qrCodeDataUrl.isNull

\* A request whose put failed has been answered
C4_Witness ==
  \E r \in Requests :
    StoreFailed(r) /\ req[r].pc = "Done" /\ req[r].resp.status = 500


\* s is an initial part of t
IsPrefix(s, t) == Len(s) <= Len(t) /\ SubSeq(t, 1, Len(s)) = s

AllPhases == <<"Validating", "Storing", "Resolving", "Encoding", "Responding">>

\* The place of a phase in the steps request r has entered (0: not entered)
PhaseIndex(r, phase) ==
  LET hits == {i \in 1..Len(req[r].phases) : req[r].phases[i] = phase}
  IN IF hits = {} THEN 0 ELSE CHOOSE i \in hits : TRUE

(***************************************************************************)
(* C5: upload handler.  The steps a publish request enters are an initial  *)
(* part of Validating, Storing, Resolving, Encoding, Responding, each      *)
(* entered once; a put is issued only for a file that passed validation;   *)
(* the address is resolved only after the request's put succeeded; the     *)
(* encoding starts only with the address resolved; in part_000 a request   *)
(* that reaches Responding ended its encoding Succeeded or Degraded; no    *)
(* request is answered twice; and every request that arrived is eventually *)
(* answered, exactly once.                                                 *)
(***************************************************************************)
C5_PhaseOrder ==
  \A r \in Requests :
    /\ IsPrefix(req[r].phases, AllPhases)
    /\ req[r].calls # <<>>
         => /\ PhaseIndex(r, "Storing") = 2
            /\ req[r].form.kind = "file"
            /\ req[r].form.type \in StatedTypes
            /\ req[r].form.size <= StatedCeiling
    /\ (PhaseIndex(r, "Resolving") > 0 \/ req[r].publicUrl # <<>>)
         => /\ StoredOk(r)
            /\ PhaseIndex(r, "Resolving") = 3
            /\ req[r].publicUrl # <<>>
    /\ (PhaseIndex(r, "Encoding") > 0 \/ req[r].enc # "" \/ ~req[r].qrCodeDataUrl.isNull)
         => /\ PhaseIndex(r, "Encoding") = 4
            /\ req[r].publicUrl # <<>>
    /\ PhaseIndex(r, "Responding") > 0
         => /\ req[r].enc \in {"Succeeded", "Degraded"}
            /\ Succeeded(r)
    /\ (impl = "part_000" /\ req[r].pc = "Done" /\ PhaseIndex(r, "Encoding") > 0)
         => /\ req[r].enc \in {"Succeeded", "Degraded"}
            /\ req[r].phases = AllPhases
    /\ req[r].sent <= 1
    /\ req[r].pc = "Done" <=> req[r].sent = 1
    /\ req[r].sent = 1 <=> req[r].resp.status # 0

C5_EveryRequestAnswered ==
  \A r \in Requests :
    (req[r].pc # "Idle") ~> (req[r].pc = "Done" /\ req[r].sent = 1)

C5_RequestLifecycle == [](C5_PhaseOrder) /\ C5_EveryRequestAnswered

\* A request went through all five steps and was answered once
C5_Witness ==
  \E r \in Requests :
    /\ impl = "part_000"
    /\ req[r].phases = AllPhases
    /\ req[r].pc = "Done" /\ req[r].sent = 1 /\ req[r].resp.success
    /\ req[r].enc = "Degraded"


(***************************************************************************)
(* C6: part_000.  Every success response of a publish request carries the  *)
(* stored key, the resolved address, the image or null, and the flag; the  *)
(* flag qrCodeGenerated is true exactly when qrCode is not null.           *)
(***************************************************************************)
C6_SuccessResponseShape ==
  \A r \in Requests :
    (impl = "part_000" /\ Succeeded(r))
      => LET resp == req[r].resp
         IN /\ {"success", "fileName", "imageUrl", "qrCode", "qrCodeGenerated"}
                 \subseteq resp.keys
            /\ StoredOk(r)
            /\ resp.fileName = req[r].calls[1].key
            /\ resp.fileName \in DOMAIN bucket
            /\ resp.imageUrl = req[r].publicUrl
            /\ resp.imageUrl # <<>>
            /\ resp.qrCodeGenerated <=> ~resp.qrCode.isNull
            /\ resp.qrCodeGenerated <=> req[r].enc = "Succeeded"

\* One success response carries a code and a true flag, another null and false
C6_Witness ==
  \E r, q \in Requests :
    /\ impl = "part_000" /\ Succeeded(r) /\ Succeeded(q)
    /\ req[r].resp.qrCodeGenerated /\ ~req[r].resp.qrCode.isNull
    /\ ~req[q].resp.qrCodeGenerated /\ req[q].resp.qrCode.isNull

\* The address without its last Len(fileName) + 1 characters: the base part
BasePart(r) ==
  SubSeq(req[r].publicUrl, 1, Len(req[r].publicUrl) - Len(req[r].fileName) - 1)

\* The request's own origin, as the client wrote it
StatedOrigin == <<"h", "t", "t", "p", ":", "/", "/", "w">>

\* The address is the proxy address of the key
IsProxyAddress(r) ==
  req[r].publicUrl =
    StatedOrigin \o <<"/", "i", "m", "a", "g", "e", "s", "/">> \o req[r].fileName

\* part_000 has resolved the address of request r
Resolved(r) == impl = "part_000" /\ PhaseIndex(r, "Resolving") > 0

(***************************************************************************)
(* C7 as stated: with R2_PUBLIC_URL configured, the address is a base part *)
(* that no longer ends in '/', obtained from the configured base by        *)
(* dropping its trailing slash, followed by '/' and the key; with none     *)
(* configured it is the request's origin, '/images/' and the key.          *)
(* Refuted: for the base http://c// the base part is http://c/.            *)
(***************************************************************************)
C7_Original ==
  \A r \in Requests :
    Resolved(r) =>
      IF R2_PUBLIC_URL # <<>>
      THEN /\ req[r].publicUrl = BasePart(r) \o <<"/">> \o req[r].fileName
           /\ ~EndsWith(BasePart(r), <<"/">>)
           /\ BasePart(r) \in {R2_PUBLIC_URL, SliceDropLast(R2_PUBLIC_URL)}
      ELSE IsProxyAddress(r)

(***************************************************************************)
(* C7 amended: with R2_PUBLIC_URL configured, the address is the           *)
(* configured base with one trailing slash removed if it ends in one (a    *)
(* base ending in several slashes keeps the others), followed by '/' and   *)
(* the key; with none configured it is the request's origin, '/images/'    *)
(* and the key.                                                            *)
(***************************************************************************)
C7_OneSlashStripped ==
  \A r \in Requests :
    Resolved(r) =>
      IF R2_PUBLIC_URL # <<>>
      THEN /\ req[r].publicUrl = BasePart(r) \o <<"/">> \o req[r].fileName
           /\ \/ BasePart(r) = R2_PUBLIC_URL /\ R2_PUBLIC_URL[Len(R2_PUBLIC_URL)] # "/"
              \/ BasePart(r) \o <<"/">> = R2_PUBLIC_URL
      ELSE IsProxyAddress(r)

\* A base with one trailing slash was stripped to a base part without one
C7_Witness ==
  \E r \in Requests :
    /\ Resolved(r)
    /\ R2_PUBLIC_URL = <<"h", "t", "t", "p", ":", "/", "/", "c", "/">>
    /\ req[r].publicUrl = <<"h", "t", "t", "p", ":", "/", "/", "c", "/">> \o req[r].fileName

\* The extension generateFileName gives the key of request r
ExtensionOf(r) ==
  LET name == req[r].form.name
      dots == {i \in 1..Len(name) : name[i] = "."}
      after == IF dots = {} THEN name
               ELSE SubSeq(name, (CHOOSE i \in dots : \A j \in dots : j <= i) + 1, Len(name))
  IN IF after = <<>> THEN <<"p", "n", "g">> ELSE after

(***************************************************************************)
(* C8 as stated: any two accepted publish requests are stored under        *)
(* different keys.  Refuted: two requests that draw the same Date.now()    *)
(* and the same random suffix for names of the same extension get the same *)
(* key.                                                                    *)
(***************************************************************************)
C8_Original ==
  \A r, q \in Requests :
    (r # q /\ Accepted(r) /\ Accepted(q)) => req[r].fileName # req[q].fileName

(***************************************************************************)
(* C8 amended: two accepted publish requests are stored under different    *)
(* keys unless they drew the same timestamp and the same random suffix and *)
(* their original names have the same extension; in that case, and only    *)
(* then, their keys are equal.                                             *)
(***************************************************************************)
C8_KeysDifferUnlessSameDraw ==
  \A r, q \in Requests :
    (r # q /\ Accepted(r) /\ Accepted(q))
      => (req[r].fileName = req[q].fileName
            <=> /\ req[r].timestamp = req[q].timestamp
                /\ req[r].random = req[q].random
                /\ ExtensionOf(r) = ExtensionOf(q))

\* The same file published twice is stored under two keys
C8_Witness ==
  \E r, q \in Requests :
    /\ r # q /\ StoredOk(r) /\ StoredOk(q)
    /\ req[r].form = req[q].form
    /\ req[r].timestamp = req[q].timestamp
    /\ req[r].fileName # req[q].fileName
    /\ {req[r].fileName, req[q].fileName} \subseteq DOMAIN bucket

(***************************************************************************)
(* C9: both versions.  An accepted publish request issues exactly one      *)
(* blob-store operation, a put for its key, and never a get: nothing is    *)
(* read from the store before the write.                                   *)
(***************************************************************************)
C9_OnePutNoGet ==
  \A r \in Requests :
    Accepted(r)
      => /\ \A i \in 1..Len(req[r].calls) : req[r].calls[i].op = "put"
         /\ req[r].pc = "Storing" => req[r].calls = <<>>
         /\ req[r].pc # "Storing"
              => /\ Len(req[r].calls) = 1
                 /\ req[r].calls[1].key = req[r].fileName

\* An accepted request has stored its payload with its one put
C9_Witness ==
  \E r \in Requests :
    /\ Succeeded(r)
    /\ req[r].calls = << [op |-> "put", key |-> req[r].fileName, ok |-> TRUE] >>
    /\ bucket[req[r].fileName].body = req[r].form.body

(***************************************************************************)
(* C10: both versions.  A non-empty payload passes validation exactly when *)
(* its declared type is one of the six image types and its size is at most *)
(* 10 MiB; otherwise it is answered 400.                                   *)
(***************************************************************************)
C10_ValidationRule ==
  \A r \in Requests :
    (Validated(r) /\ req[r].form.kind = "file" /\ req[r].form.size > 0)
      => /\ Accepted(r) <=> (req[r].form.type \in StatedTypes
                              /\ req[r].form.size <= 10485760)
         /\ ~Accepted(r) => (req[r].pc = "Done" /\ req[r].resp.status = 400)

\* A payload of exactly 10 MiB was accepted, one of 10 MiB + 1 byte rejected
C10_Witness ==
  \E r, q \in Requests :
    /\ Validated(r) /\ req[r].form.size = 10485760 /\ Accepted(r)
    /\ Validated(q) /\ req[q].form.size = 10485761 /\ ~Accepted(q)
    /\ req[q].form.type \in StatedTypes /\ req[q].resp.status = 400

(***************************************************************************)
(* C11: both versions.  A publish request whose file field is present but  *)
(* empty (zero bytes) is rejected by validation like an unset payload:     *)
(* once validated it is answered 400, no key was generated for it and no   *)
(* blob-store operation was issued.  Refuted: a zero-byte File object is   *)
(* truthy, so !file is false; with an allowed type it passes the three     *)
(* checks and its (empty) body is put into the store.                      *)
(***************************************************************************)
C11_EmptyPayloadRejected ==
  \A r \in Requests :
    (Validated(r) /\ req[r].form.kind = "file" /\ req[r].form.size = 0)
      => /\ req[r].pc = "Done"
         /\ req[r].resp.status = 400
         /\ req[r].calls = <<>>
         /\ req[r].fileName = <<>>

\* The handler has finished parsing the body of encode request q
Parsed(q) == qreq[q].pc \notin {"Idle", "Parsing"}

\* The body of encode request q is bad or missing input: not JSON, not an
\* object, or without a non-empty url
BadBody(q) == qreq[q].body.kind # "object" \/ urlMissing(qreq[q].body)

\* The fixed messages of the handlers' catch blocks
GenericMessages ==
  {"Upload failed, please try again", "shangchuan shibai, qing chongshi",
   "Failed to generate QR code", "shengcheng erweima shibai"}

(***************************************************************************)
(* C12: upload and encode handlers.  A publish request whose body is not   *)
(* multipart form data or whose file field breaks a validation rule, and   *)
(* an encode request whose body is not JSON, not an object, or lacks a     *)
(* non-empty url, is answered 400 with a message other than the generic    *)
(* failure message, never 500.  Refuted: a body that cannot be parsed      *)
(* makes formData() / json() reject inside the handler's try, and the      *)
(* catch answers with the generic 500.                                     *)
(***************************************************************************)
C12_BadInputIs400 ==
  /\ \A r \in Requests :
       (Validated(r) /\ (req[r].form.kind = "unparsable" \/ MustReject(req[r].form)))
         => /\ req[r].resp.status = 400
            /\ req[r].resp.error \notin GenericMessages
  /\ \A q \in EncodeRequests :
       (Parsed(q) /\ BadBody(q))
         => /\ qreq[q].resp.status = 400
            /\ qreq[q].resp.error \notin GenericMessages

(***************************************************************************)
(* C13: index.ts, upload handler.  A request whose payload was stored and  *)
(* whose QR encoding then failed is answered with the success response:    *)
(* status 200, success true, the stored key and its address, and no code.  *)
(* Refuted: QRCode.toDataURL is awaited inside the handler's one try       *)
(* block, so its rejection reaches the catch and the request is answered   *)
(* with the generic 500 although the object stays in the store.            *)
(***************************************************************************)
C13_EncodingFailureToleratedV1 ==
  \A r \in Requests :
    (impl = "index_ts" /\ req[r].pc = "Done" /\ StoredOk(r) /\ req[r].enc # "Succeeded")
      => /\ req[r].resp.status = 200
         /\ req[r].resp.success
         /\ req[r].resp.fileName = req[r].fileName
         /\ req[r].resp.imageUrl = req[r].publicUrl
         /\ req[r].resp.qrCode.isNull

(***************************************************************************)
(* C14: both versions.  Every answer of GET /images/{key} is one of three: *)
(* 200 with the bytes the store holds under the key (only when it holds an *)
(* object there), 404 with the not-found message (only when it holds       *)
(* none), or 500 with the route's fixed failure message; and the step that *)
(* answers leaves the blob store as it was.                                *)
(***************************************************************************)
C14_GetAnswers ==
  imgResp' # imgResp
    => /\ bucket' = bucket
       /\ LET k == imgResp'.key
          IN \/ /\ imgResp'.status = 200
                /\ k \in DOMAIN bucket
                /\ imgResp'.body = bucket[k].body
                /\ imgResp'.error = ""
             \/ /\ imgResp'.status = 404
                /\ k \notin DOMAIN bucket
                /\ imgResp'.error \in {"Image not found", "tupian bu cunzai"}
                /\ imgResp'.body = ""
             \/ /\ imgResp'.status = 500
                /\ imgResp'.error \in {"Failed to get image", "huoqu tupian shibai"}
                /\ imgResp'.body = ""

C14_ImageRoute == [][C14_GetAnswers]_vars

\* A stored payload has been served while another key was never stored
C14_Witness ==
  /\ imgResp.status = 200
  /\ imgResp.key \in DOMAIN bucket
  /\ imgResp.body = "bytesA"
  /\ bucket[imgResp.key].body = "bytesA"
  /\ MissingKey \notin DOMAIN bucket

\* The publish request was answered with an address of the worker's own
\* image route (no public base configured)
PublishedViaProxy(r) == R2_PUBLIC_URL = <<>> /\ Succeeded(r)

C15_UrlLeadsToKey ==
  \A r \in Requests :
    PublishedViaProxy(r)
      => /\ routeImages(req[r].resp.imageUrl).matched
         /\ routeImages(req[r].resp.imageUrl).fileName = req[r].calls[1].key

C15_FetchReturnsUpload ==
  \A r \in Requests :
    (/\ PublishedViaProxy(r)
     /\ imgResp' # imgResp
     /\ imgResp'.key = routeImages(req[r].resp.imageUrl).fileName
     /\ imgResp'.status # 500)
      => /\ imgResp'.status = 200
         /\ imgResp'.body = req[r].form.body
         /\ imgResp'.contentType = req[r].form.type

(***************************************************************************)
(* C15: round trip.  For every publish request answered with success while *)
(* no public base is configured, the returned imageUrl is routed to        *)
(* GET /images/{key} with exactly the key the payload was put under, and a *)
(* request for it whose store read succeeds returns the bytes and the      *)
(* content type of that upload.  Refuted: the key is appended to the       *)
(* address without encoding, so an extension holding '?', '#' or '/'       *)
(* (q.p?g) gives an address whose path ends before the extension; and two  *)
(* publishes that draw the same key overwrite each other.                  *)
(***************************************************************************)
C15_RoundTrip == [][C15_UrlLeadsToKey' /\ C15_FetchReturnsUpload]_vars

(***************************************************************************)
(* C16: both versions.  An encode request whose JSON body has no url, or   *)
(* an empty one, is answered 400 with the handler's 'provide a URL' error  *)
(* and no image, and the QR library was not called for it.                 *)
(***************************************************************************)
C16_MissingTextRejected ==
  \A q \in EncodeRequests :
    (/\ Parsed(q)
     /\ qreq[q].body.kind = "object"
     /\ (qreq[q].body.url.isNull \/ qreq[q].body.url.v = <<>>))
      => /\ qreq[q].pc = "Done"
         /\ qreq[q].resp.status = 400
         /\ qreq[q].resp.keys = {"error"}
         /\ qreq[q].resp.error \in {"Please provide a URL", "qing tigong URL"}
         /\ ~qreq[q].resp.success
         /\ qreq[q].resp.qrCode = <<>>
         /\ qreq[q].encoded = <<>>
         /\ qreq[q].lib = ""

\* A request without url and one with an empty url have both been rejected
C16_Witness ==
  \E p, q \in EncodeRequests :
    /\ qreq[p].pc = "Done" /\ qreq[p].body.kind = "object" /\ qreq[p].body.url.isNull
    /\ qreq[p].resp.status = 400
    /\ qreq[q].pc = "Done" /\ qreq[q].body.kind = "object"
    /\ ~qreq[q].body.url.isNull /\ qreq[q].body.url.v = <<>>
    /\ qreq[q].resp.status = 400 /\ qreq[q].encoded = <<>>

\* Encode request q was answered and its body carries a non-empty text
AnsweredText(q) ==
  /\ qreq[q].pc = "Done"
  /\ qreq[q].body.kind = "object"
  /\ ~qreq[q].body.url.isNull
  /\ qreq[q].body.url.v # <<>>

\* The QR library was called for request q and produced an image
Rendered(q) == qreq[q].lib \in {"svg", "png"}

\* The response of request q is the success response carrying an image
EncodeSucceeded(q) ==
  /\ qreq[q].resp.status = 200
  /\ qreq[q].resp.success
  /\ qreq[q].resp.qrCode # <<>>

(***************************************************************************)
(* C17 as stated: the handler rejects no non-empty text: for every         *)
(* non-empty text the encoder is called, and the request succeeds whenever *)
(* the encoder renders the text.  Refuted: part_000 answers the text 'hi'  *)
(* with 400 'Invalid URL format' without calling the encoder.              *)
(***************************************************************************)
C17_Original ==
  \A q \in EncodeRequests :
    AnsweredText(q)
      => /\ qreq[q].resp.status # 400
         /\ Len(qreq[q].encoded) = 1
         /\ Rendered(q) => EncodeSucceeded(q)

(***************************************************************************)
(* C17 amended: index.ts rejects no non-empty text; part_000 rejects       *)
(* exactly the non-empty texts that new URL() cannot parse as an absolute  *)
(* URL, with 400 'Invalid URL format' and without calling the encoder.     *)
(* For every other non-empty text the encoder is called once with the text *)
(* as content, and the request succeeds exactly when the encoder renders   *)
(* it; otherwise it is answered 500.                                       *)
(***************************************************************************)
C17_UrlTextEncoded ==
  \A q \in EncodeRequests :
    AnsweredText(q)
      => IF impl = "part_000" /\ ~URLParses(qreq[q].body.url.v)
         THEN /\ qreq[q].resp.status = 400
              /\ qreq[q].resp.error = "Invalid URL format"
              /\ qreq[q].encoded = <<>>
         ELSE /\ Len(qreq[q].encoded) = 1
              /\ qreq[q].encoded[1].content = qreq[q].body.url.v
              /\ Rendered(q) <=> EncodeSucceeded(q)
              /\ ~Rendered(q) => qreq[q].resp.status = 500

\* part_000 has rejected the text 'hi' and encoded the text 'http://x'
C17_Witness ==
  \E p, q \in EncodeRequests :
    /\ impl = "part_000"
    /\ AnsweredText(p) /\ qreq[p].body.url.v = <<"h", "i">>
    /\ qreq[p].resp.status = 400
    /\ AnsweredText(q) /\ qreq[q].body.url.v = <<"h", "t", "t", "p", ":", "/", "/", "x">>
    /\ EncodeSucceeded(q)

\* The value of an option of the body, or the default when it is omitted
OptionOr(option, default) == IF option.given THEN option.v ELSE default

GivenOr(option, falsy, default) ==
  IF option.given /\ ~(impl = "part_000" /\ option.v = falsy) THEN option.v ELSE default

C19_Original ==
  \A q \in EncodeRequests :
    qreq[q].pc = "Done"
      => LET resp == qreq[q].resp
         IN \/ /\ {"success", "qrCode"} \subseteq resp.keys
               /\ resp.success
               /\ resp.qrCode # <<>>
            \/ /\ {"success", "error"} \subseteq resp.keys
               /\ ~resp.success
               /\ resp.error # ""

(***************************************************************************)
(* C19 amended: every response to an encode request is either status 200   *)
(* with the body { success: true, qrCode: <data URL of the image> }, or    *)
(* status 400 or 500 with a body that carries a non-empty error message,   *)
(* no image and no success field (the 500 of part_000 adds details); the   *)
(* request failed exactly when the status is not 200, and a failed request *)
(* never carries success = true.                                           *)
(***************************************************************************)
C19_ResponseShapes ==
  \A q \in EncodeRequests :
    qreq[q].pc = "Done"
      => LET resp == qreq[q].resp
         IN /\ \/ /\ resp.status = 200
                  /\ resp.keys = {"success", "qrCode"}
                  /\ resp.success
                  /\ StartsWith(resp.qrCode, DataImage)
                  /\ resp.error = ""
                  /\ Rendered(q)
               \/ /\ resp.status \in {400, 500}
                  /\ "error" \in resp.keys
                  /\ resp.keys \subseteq {"error", "details"}
                  /\ resp.error # ""
                  /\ resp.qrCode = <<>>
                  /\ ~resp.success
                  /\ ~Rendered(q)
                  /\ "details" \in resp.keys <=> (impl = "part_000" /\ resp.status = 500)
            /\ qreq[q].sent = 1

\* One encode request succeeded and another failed inside the encoder
C19_Witness ==
  \E p, q \in EncodeRequests :
    /\ qreq[p].pc = "Done" /\ qreq[p].resp.status = 200 /\ qreq[p].resp.success
    /\ qreq[q].pc = "Done" /\ qreq[q].resp.status = 500 /\ qreq[q].lib = "throws"
    /\ qreq[q].resp.keys = {"error", "details"}

\* The error-correction level encode request q asks for (M when it names
\* none)
RequestedLevel(q) == OptionOr(qreq[q].body.eccLevel, "M")

\* The text of encode request q is too long for the largest symbol at the
\* level
TooLongAt(q, level) == Len(qreq[q].body.url.v) > capacityOf(level)

C21_ImageUrlAbsolute ==
  \A r \in Requests :
    Succeeded(r)
      => /\ req[r].resp.imageUrl # <<>>
         /\ URLParses(req[r].resp.imageUrl)

(***************************************************************************)
(* C22: both versions.  The qrCode of a success response of a publish      *)
(* request, when it is not null, starts with 'data:image/png;base64,'.     *)
(* Refuted: part_000 renders the code with qrcode-svg and returns          *)
(* 'data:image/svg+xml;base64,...' (or the charset=utf-8 form).            *)
(***************************************************************************)
C22_QrCodeIsPng ==
  \A r \in Requests :
    (Succeeded(r) /\ ~req[r].resp.qrCode.isNull)
      => StartsWith(req[r].resp.qrCode.v,
                    <<"d", "a", "t", "a", ":", "i", "m", "a", "g", "e", "/", "p", "n", "g",
                      ";", "b", "a", "s", "e", "6", "4", ",">>)

\* C23: at every error-correction level and for every content length, the
\* encoder takes the smallest version in 1..40 whose capacity at that level
\* holds the content, and content above the capacity of version 40 at that
\* level raises CapacityExceededError.
C23_SmallestVersion ==
  call.fn = "QRCode" =>
    LET holding == {v \in 1..MaxVersion : dataCapacity(v, call.ecl) >= call.n}
    IN IF holding = {}
       THEN /\ call.result.threw
            /\ call.result.message = "CapacityExceededError"
       ELSE /\ ~call.result.threw
            /\ call.version \in holding
            /\ \A v \in holding : call.version <= v

\* Content that fills version 9 at level Q exactly, and content one byte
\* above the capacity of version 40 at level H
C23_Witness ==
  /\ call.fn = "QRCode"
  /\ \/ call.ecl = "Q" /\ call.n = 130 /\ call.version = 9
     \/ call.ecl = "H" /\ call.n = 1274 /\ call.result.threw

\* The type the list of image extensions gives a key, its extension compared
\* case-insensitively ("": the extension is not in the list)
ListedType(key) ==
  LET ext == toLowerCase(SplitPop(key, "."))
  IN CASE ext \in {<<"j", "p", "g">>, <<"j", "p", "e", "g">>} -> "image/jpeg"
       [] ext = <<"p", "n", "g">> -> "image/png"
       [] ext = <<"g", "i", "f">> -> "image/gif"
       [] ext = <<"w", "e", "b", "p">> -> "image/webp"
       [] ext = <<"s", "v", "g">> -> "image/svg+xml"
       [] ext = <<"b", "m", "p">> -> "image/bmp"
       [] OTHER -> ""

\* C24: the Content-Type of an image served by GET /images/{key} is the
\* content type stored with the object when there is one; otherwise the type
\* the key's extension maps to, compared case-insensitively (jpg, jpeg, png,
\* gif, webp, svg, bmp); otherwise application/octet-stream.
C24_ContentType ==
  (imgResp.status = 200 /\ imgResp.key \in DOMAIN bucket)
    => imgResp.contentType =
         IF bucket[imgResp.key].contentType # ""
         THEN bucket[imgResp.key].contentType
         ELSE IF ListedType(imgResp.key) # "" THEN ListedType(imgResp.key)
         ELSE "application/octet-stream"

\* The same without the keys whose extension names a property every
\* JavaScript object inherits (holds; the listed types, the case-insensitive
\* comparison and the default are as the claim says)
C24_ContentTypeOwnNames ==
  (/\ imgResp.status = 200
   /\ imgResp.key \in DOMAIN bucket
   /\ toLowerCase(SplitPop(imgResp.key, ".")) \notin DOMAIN inheritedProperty)
    => imgResp.contentType =
         IF bucket[imgResp.key].contentType # ""
         THEN bucket[imgResp.key].contentType
         ELSE IF ListedType(imgResp.key) # "" THEN ListedType(imgResp.key)
         ELSE "application/octet-stream"

\* C25: generateFileName returns '<timestamp>-<random suffix>.<ext>' with a
\* non-empty random suffix, ext being the text after the last '.' of the
\* original name, and 'png' when the original name has no extension.
C25_KeyFormat ==
  call.fn = "generateFileName" =>
    LET dot == LastIndexOf(call.name, ".")
        after == SubSeq(call.name, dot + 1, Len(call.name))
        ext == IF dot = 0 \/ after = <<>> THEN PNG ELSE after
        suffix == call.text.v
    IN /\ suffix # <<>>
       /\ call.result.value =
            NumToString(call.n) \o <<"-">> \o suffix \o <<".">> \o ext

\* The same for original names that hold a '.', and a random suffix that may
\* be empty (holds)
C25_KeyFormatDottedNames ==
  (call.fn = "generateFileName" /\ LastIndexOf(call.name, ".") # 0) =>
    LET after == SubSeq(call.name, LastIndexOf(call.name, ".") + 1, Len(call.name))
        ext == IF after = <<>> THEN PNG ELSE after
    IN call.result.value =
         NumToString(call.n) \o <<"-">> \o call.text.v \o <<".">> \o ext

\* C26: whenever generateQRCode returns, the result starts with 'data:image'
\* (the callers' 'returned invalid data' check cannot fire); the base64 form
\* is tried first and the URL-encoded form is used when btoa is missing or the
\* base64 step fails, so a failure of the base64 step alone never makes
\* generateQRCode fail.
C26_DataUrlWithFallback ==
  call.fn = "generateQRCode" =>
    /\ ~call.result.threw =>
         /\ call.result.value # <<>>
         /\ StartsWith(call.result.value, DataImage)
    /\ (call.text.type = "string" /\ call.text.v # <<>> /\ call.run.lib = "svg") =>
         /\ ~call.result.threw
         /\ call.run.btoa = "ok" =>
              StartsWith(call.result.value, SvgBase64Prefix)
         /\ call.run.btoa # "ok" =>
              StartsWith(call.result.value, SvgUtf8Prefix)

\* btoa throws and the URL-encoded form is returned
C26_Witness ==
  /\ call.fn = "generateQRCode"
  /\ call.run.btoa = "throws"
  /\ ~call.result.threw
  /\ StartsWith(call.result.value, SvgUtf8Prefix)

\* C28: when generateQRCode fails, the error thrown to the caller is the
\* original failure, rethrown after logging; for text that is empty or not a
\* string the caller receives 'Invalid text for QR code generation'.
C28_OriginalFailureRethrown ==
  (call.fn = "generateQRCode" /\ call.result.threw) =>
    call.result.message =
      IF call.text.type # "string" \/ call.text.v = <<>>
      THEN "Invalid text for QR code generation"
      ELSE IF call.run.lib = "throws" THEN "qrcode-svg error"
      ELSE "QR code generation returned invalid SVG"

\* The messages the handlers choose for their error responses
FixedMessages ==
  { MsgNoFile, MsgBadType, MsgTooLarge, MsgUploadFailed,
    MsgNoFileV1, MsgBadTypeV1, MsgTooLargeV1, MsgUploadFailedV1,
    "Image not found", "Failed to get image",
    "tupian bu cunzai", "huoqu tupian shibai",
    MsgNoUrl, MsgBadUrl, MsgQrFailed, MsgNoUrlV1, MsgQrFailedV1 }

\* C27 as stated: no error response of the upload, image and encode routes
\* carries the message of an internal exception; each carries only a fixed
\* message chosen by the handler.
C27_Original ==
  /\ req[1].resp.status >= 400 =>
       /\ req[1].resp.keys = {"error"}
       /\ req[1].resp.error \in FixedMessages
  /\ imgResp.status >= 400 => imgResp.error \in FixedMessages
  /\ qreq[1].resp.status >= 400 =>
       /\ qreq[1].resp.keys = {"error"}
       /\ qreq[1].resp.error \in FixedMessages
       /\ qreq[1].resp.details = ""

\* C27, amended: the error responses of the upload route and of the image
\* route carry only a fixed message; so do those of the encode route, but
\* the 500 of part_000's encode route carries the exception's message as
\* well, in `details`.
C27_FixedMessagesDetailsOnEncode ==
  /\ req[1].resp.status >= 400 =>
       /\ req[1].resp.keys = {"error"}
       /\ req[1].resp.error \in FixedMessages
  /\ imgResp.status >= 400 => imgResp.error \in FixedMessages
  /\ qreq[1].resp.status >= 400 =>
       /\ qreq[1].resp.error \in FixedMessages
       /\ IF impl = "part_000" /\ qreq[1].resp.status = 500
          THEN /\ qreq[1].resp.keys = {"error", "details"}
               /\ qreq[1].resp.details # ""
               /\ qreq[1].resp.details \notin FixedMessages
          ELSE /\ qreq[1].resp.keys = {"error"}
               /\ qreq[1].resp.details = ""

\* The three routes have answered with an error, the encode route of
\* part_000 with its 500
C27_Witness ==
  /\ impl = "part_000"
  /\ req[1].resp.status = 500
  /\ imgResp.status = 500
  /\ qreq[1].resp.status = 500
  /\ qreq[1].resp.details = "qrcode-svg error"

\* The status classes of the upload card
StatusClasses == {"uploading", "upload-success", "upload-error"}

\* C29: the user selects a second file while the upload of the first is in
\* flight.  After both responses have arrived, the QR code shown,
\* currentFileName and the status class of the upload card belong to the
\* file selected last, whatever the order of the responses.
C29_LatestSelectionShown ==
  (/\ page.selected = 2
   /\ page.lastEvent = "select"
   /\ page.upload[1] \in UploadOutcomes
   /\ page.upload[2] \in UploadOutcomes)
    => /\ page.uploadCard \cap StatusClasses =
            IF page.upload[2] = "failed" THEN {"upload-error"}
            ELSE {"upload-success"}
       /\ page.upload[2] # "failed" =>
            /\ page.currentFileName = UploadedNames[2]
            /\ page.hasResult
            /\ page.qrImage = IF page.upload[2] = "qr" THEN QrCodes[2]
                              ELSE QrPlaceholder
       /\ page.upload[2] = "failed" =>
            ~(page.hasResult /\ page.qrImage = QrCodes[1])

\* C30: after resetPreview the result card stays hidden, currentFileName
\* stays null and the upload card carries none of the classes uploading,
\* upload-success, upload-error, has-preview until a new file is selected,
\* even when an upload or a preview read was in flight at the reset.
C30_ResetStays ==
  page.lastEvent = "reset"
    => /\ ~page.hasResult
       /\ page.currentFileName = "null"
       /\ page.uploadCard \cap (StatusClasses \cup {"has-preview"}) = {}

====
